---- MODULE Spec2Model ----
(***************************************************************************)
(* Model of stompy's exact constrained Delaunay triangulation              *)
(* (src/stompy/grid/exact_delaunay.py, class Triangulation), of the shadow *)
(* triangulation that follows a primary grid and of the driver loop        *)
(* (src/stompy/grid/front.py, classes ShadowCDT and AdvancingFront).       *)
(*                                                                         *)
(* Conventions.  The source indexes nodes, edges and cells from 0; here    *)
(* the three arrays are sequences, so ids start at 1, "no such element"    *)
(* (Python None) is 0, and a position i in a cell is 1..3 (the source's    *)
(* (i+1)%3 is (i % 3) + 1).  A grid value is a record                      *)
(*   [nodes, edges, cells, exc]                                            *)
(* where exc names the exception that ended the call in progress ("none"   *)
(* while it runs normally).  Every mutator returns its argument unchanged  *)
(* once exc is set, so f(g(h(G))) reads as the statement sequence h; g; f  *)
(* and the arrays hold whatever had been written when the exception left.  *)
(* "Hang" stands for a loop of the source that never ends.                 *)
(*                                                                         *)
(* The package runs under Python 2 and under Python 3 (the tests guard     *)
(* reload for both).  locate_1d calls cmp, a builtin of Python 2 that      *)
(* Python 3 does not have and the module does not define; py is the major  *)
(* version of the interpreter, fixed when the run starts.                  *)
(***************************************************************************)
EXTENDS Integers, Sequences, FiniteSets, TLC

VARIABLES nodes, edges, cells, exc, op, pre, nops, py, primary, nodemap_g_to_local, front

vars == <<nodes, edges, cells, exc, op, pre, nops, py, primary, nodemap_g_to_local, front>>

(***************************************************************************)
(* Bounds of the model.                                                    *)
(***************************************************************************)
\* Longest run of public calls explored from the empty triangulation.
MaxOps == 4
\* Longest run of public calls explored from the prebuilt triangulation.
MaxOpsCDT == 2
\* Longest run of modify_node calls explored from the prebuilt triangulation.
MaxMoves == 3
\* Largest number of constraints laid on the prebuilt triangulation before
\* nodes are moved.
MaxCons == 2
\* Longest run of modify_node calls explored from the constrained triangulation.
MaxShifts == 1
\* Longest run of add_node and delete_node calls explored from the prebuilt
\* triangulation.
MaxOpsND == 3
\* Most nodes a primary grid holds when a shadow is attached to it.
MaxHeld == 1
\* Most edges laid in the primary grid before the calls that are explored.
MaxMirrored == 2
\* Longest run of calls on the primary grid explored after that.
MaxOpsShadow == 1
\* Most sites the driver loop visits.
MaxSites == 3
\* Longest run of calls explored on the prebuilt pinwheel and tooth.
MaxOpsBuilt == 2
\* Longest run of add_node calls explored on points of a few lines.
MaxOpsLine == 4
\* Coordinates of the inserted points.
Points == { <<0,0>>, <<0,1>>, <<1,0>>, <<1,2>>, <<2,2>>, <<1,1>> }
\* Positions a node of the constrained triangulation is moved to.
MovePoints == Points \cup { <<2,1>>, <<2,0>> }
\* Points of which three lie on one line, in the order of the scenario that
\* walks through the dimensions, and the points offered next to them.
LineScenario == << <<0,0>>, <<1,0>>, <<2,0>>, <<1,1>> >>
LinePoints == {LineScenario[i] : i \in 1..Len(LineScenario)} \cup { <<3,0>>, <<0,1>> }
\* A pinwheel: an inner triangle (nodes 2, 5, 3) inside an outer one (nodes
\* 1, 6, 4), joined by a ring of six triangles whose edges all pass the
\* centre on the same side; the edges of the ring and of the inner triangle,
\* in the order in which they are constrained; the points then inserted,
\* deleted and located.
PinwheelPoints == << <<-9,-6>>, <<-4,-4>>, <<0,-2>>, <<0,10>>, <<1,-4>>, <<9,-6>> >>
PinwheelConstraints ==
  << <<2,6>>, <<5,4>>, <<3,1>>, <<2,1>>, <<5,6>>, <<3,4>>, <<2,5>>, <<5,3>>, <<3,2>> >>
ProbePoints == { <<-1,-3>>, <<0,-3>>, <<-2,-3>>, <<2,0>>, <<0,-5>> }
\* A tooth: in the Delaunay triangulation of these points the segment from
\* node 1 to node 5 crosses an edge of node 6, then edges of node 4, then
\* another edge of node 6, so the chain of nodes on its right holds node 6
\* twice.
ToothPoints == << <<4,4>>, <<0,0>>, <<1,2>>, <<0,2>>, <<-4,-1>>, <<-1,3>> >>
\* Insertion order of the prebuilt, constraint-free triangulation.
BasePoints == << <<0,0>>, <<0,1>>, <<1,0>>, <<1,2>>, <<2,2>> >>

(***************************************************************************)
(* Sentinels and location types.                                           *)
(***************************************************************************)
UNMESHED == -2
UNDEFINED == -1
INF_CELL == UNMESHED

IN_VERTEX == 0
IN_EDGE == 2
IN_FACE == 3
OUTSIDE_CONVEX_HULL == 4
OUTSIDE_AFFINE_HULL == 5

\* The interpreters the package is run under.
Interpreters == {2, 3}

\* Exceptions a caller is meant to handle; after any other one, or a hang,
\* the run is over.
Documented == {"none", "DuplicateNode", "ConstraintCollinearNode", "IntersectingConstraints"}

(***************************************************************************)
(* Exact predicates (robust_predicates): signs of integer determinants.    *)
(***************************************************************************)
Sign(v) == IF v > 0 THEN 1 ELSE IF v < 0 THEN -1 ELSE 0

orientation(a, b, c) ==
  Sign((b[1] - a[1]) * (c[2] - a[2]) - (b[2] - a[2]) * (c[1] - a[1]))

incircle(a, b, c, d) ==
  LET ax == a[1] - d[1]  ay == a[2] - d[2]
      bx == b[1] - d[1]  by == b[2] - d[2]
      cx == c[1] - d[1]  cy == c[2] - d[2]
  IN Sign(  (ax*ax + ay*ay) * (bx*cy - cx*by)
          - (bx*bx + by*by) * (ax*cy - cx*ay)
          + (cx*cx + cy*cy) * (ax*by - bx*ay))

\* Python 2's builtin cmp
cmp(a, b) == IF a > b THEN 1 ELSE IF a < b THEN -1 ELSE 0

(***************************************************************************)
(* Sequence helpers.                                                       *)
(***************************************************************************)
Idx(n) == [i \in 1..n |-> i]

Rev(s) == [i \in 1..Len(s) |-> s[Len(s) + 1 - i]]

InSeq(x, s) == \E i \in 1..Len(s) : s[i] = x

\* list.index(x); 0 when x is absent
IndexOf(x, s) ==
  IF InSeq(x, s) THEN CHOOSE i \in 1..Len(s) : s[i] = x /\ \A k \in 1..(i-1) : s[k] # x
  ELSE 0

\* np.roll(s,-k): s[k+1..] followed by s[..k]
Roll(s, k) == SubSeq(s, k + 1, Len(s)) \o SubSeq(s, 1, k)

Raise(g, e) == [g EXCEPT !.exc = e]

\* the assignment name = v followed by the statements K that read the name:
\* v is computed once, and only if K reads it
Bind(v, K(_)) == K(v)

(***************************************************************************)
(* The mesh container (unstructured_grid.UnstructuredGrid).                *)
(***************************************************************************)
\* flips is a history, not a field of the grid: the edges flip_edge was
\* called on, each as it was at the call
EmptyGrid(v) ==
  [nodes |-> <<>>, edges |-> <<>>, cells |-> <<>>, exc |-> "none", py |-> v, flips |-> <<>>]

X(g, n) == g.nodes[n].x

valid_node_iter(g) == SelectSeq(Idx(Len(g.nodes)), LAMBDA n : ~g.nodes[n].deleted)
valid_edge_iter(g) == SelectSeq(Idx(Len(g.edges)), LAMBDA j : ~g.edges[j].deleted)
valid_cell_iter(g) == SelectSeq(Idx(Len(g.cells)), LAMBDA c : ~g.cells[c].deleted)

Nnodes_valid(g) == Len(valid_node_iter(g))
Nedges_valid(g) == Len(valid_edge_iter(g))
Ncells_valid(g) == Len(valid_cell_iter(g))

\* the live edges at n, in index order
node_to_edges(g, n) ==
  SelectSeq(Idx(Len(g.edges)),
            LAMBDA j : ~g.edges[j].deleted /\ (g.edges[j].nodes[1] = n \/ g.edges[j].nodes[2] = n))

OtherNode(g, j, n) == IF g.edges[j].nodes[1] = n THEN g.edges[j].nodes[2] ELSE g.edges[j].nodes[1]

node_to_nodes(g, n) ==
  LET js == node_to_edges(g, n) IN [i \in 1..Len(js) |-> OtherNode(g, js[i], n)]

node_to_cells(g, n) ==
  SelectSeq(Idx(Len(g.cells)),
            LAMBDA c : ~g.cells[c].deleted /\ \E i \in 1..3 : g.cells[c].nodes[i] = n)

\* the live edge joining a and b, 0 (None) when there is none
nodes_to_edge(g, a, b) ==
  LET js == {j \in 1..Len(g.edges) :
               /\ ~g.edges[j].deleted
               /\ a # b
               /\ {g.edges[j].nodes[1], g.edges[j].nodes[2]} = {a, b}}
  IN IF js = {} THEN 0 ELSE CHOOSE j \in js : \A k \in js : j <= k

\* the first live cell holding all the nodes ns, 0 (None) when there is none
nodes_to_cell(g, ns) ==
  LET cs == {c \in 1..Len(g.cells) :
               /\ ~g.cells[c].deleted
               /\ ns \subseteq {g.cells[c].nodes[i] : i \in 1..3}}
  IN IF cs = {} THEN 0 ELSE CHOOSE c \in cs : \A k \in cs : c <= k

cell_to_cells(g, c) ==
  [i \in 1..3 |->
     LET cs == g.edges[g.cells[c].edges[i]].cells
     IN IF cs[1] = c THEN cs[2] ELSE cs[1]]

base_add_node(g, x, index) ==
  IF g.exc # "none" THEN g
  ELSE IF index = 0 \/ index = Len(g.nodes) + 1
       THEN [g EXCEPT !.nodes = Append(@, [x |-> x, deleted |-> FALSE])]
       ELSE IF ~g.nodes[index].deleted THEN Raise(g, "AssertionError")
       ELSE [g EXCEPT !.nodes[index] = [x |-> x, deleted |-> FALSE]]

base_delete_node(g, n) ==
  IF g.exc # "none" THEN g ELSE [g EXCEPT !.nodes[n].deleted = TRUE]

delete_edge(g, j) ==
  IF g.exc # "none" THEN g ELSE [g EXCEPT !.edges[j].deleted = TRUE]

modify_edge(g, j, n0, n1) ==
  IF g.exc # "none" THEN g ELSE [g EXCEPT !.edges[j].nodes = <<n0, n1>>]

\* each edge of c hands its slot for c back to UNMESHED
delete_cell(g, c) ==
  IF g.exc # "none" THEN g
  ELSE LET mine == {g.cells[c].edges[i] : i \in 1..3}
       IN [g EXCEPT
             !.edges = [j \in 1..Len(g.edges) |->
                          IF j \notin mine THEN g.edges[j]
                          ELSE IF g.edges[j].cells[1] = c
                               THEN [g.edges[j] EXCEPT !.cells[1] = UNMESHED]
                          ELSE IF g.edges[j].cells[2] = c
                               THEN [g.edges[j] EXCEPT !.cells[2] = UNMESHED]
                          ELSE g.edges[j]],
             !.cells[c].deleted = TRUE]

delete_edge_cascade(g, j) ==
  IF g.exc # "none" THEN g
  ELSE LET c1 == g.edges[j].cells[1]
           c2 == g.edges[j].cells[2]
           g1 == IF c1 > 0 THEN delete_cell(g, c1) ELSE g
           g2 == IF c2 > 0 THEN delete_cell(g1, c2) ELSE g1
       IN delete_edge(g2, j)

(***************************************************************************)
(* Triangulation.add_edge, add_cell: cells default to INF_CELL; a cell is  *)
(* stored counter-clockwise and registers itself with its three edges.     *)
(***************************************************************************)
\* a defect for comparison: the constrained flag is not passed on
add_edge_unflagged(g, n0, n1, constrained) ==
  IF g.exc # "none" THEN g
  ELSE [g EXCEPT !.edges = Append(@, [nodes |-> <<n0, n1>>,
                                      cells |-> <<INF_CELL, INF_CELL>>,
                                      constrained |-> FALSE,
                                      deleted |-> FALSE])]

add_edge(g, n0, n1, constrained) ==
  IF g.exc # "none" THEN g
  ELSE [g EXCEPT !.edges = Append(@, [nodes |-> <<n0, n1>>,
                                      cells |-> <<INF_CELL, INF_CELL>>,
                                      constrained |-> constrained,
                                      deleted |-> FALSE])]

\* the node order add_cell stores: reversed when given clockwise
ccw_order(g, ns) ==
  IF orientation(X(g, ns[1]), X(g, ns[2]), X(g, ns[3])) < 0 THEN Rev(ns) ELSE ns

add_cell(g, ns) ==
  IF g.exc # "none" THEN g
  ELSE LET ccw == orientation(X(g, ns[1]), X(g, ns[2]), X(g, ns[3]))
           n == ccw_order(g, ns)
           js == << nodes_to_edge(g, n[1], n[2]),
                    nodes_to_edge(g, n[2], n[3]),
                    nodes_to_edge(g, n[3], n[1]) >>
           c == Len(g.cells) + 1
           Slot(j) == CHOOSE i \in 1..3 : js[i] = j /\ \A k \in (i+1)..3 : js[k] # j
       IN IF ccw = 0 THEN Raise(g, "AssertionError")
          ELSE IF \E i \in 1..3 : js[i] = 0 THEN Raise(g, "TypeError")
          ELSE [g EXCEPT
                  !.cells = Append(@, [nodes |-> n, edges |-> js, deleted |-> FALSE]),
                  !.edges = [j \in 1..Len(g.edges) |->
                               IF \A i \in 1..3 : js[i] # j THEN g.edges[j]
                               ELSE IF g.edges[j].nodes[1] = n[Slot(j)]
                                    THEN [g.edges[j] EXCEPT !.cells[1] = c]
                                    ELSE [g.edges[j] EXCEPT !.cells[2] = c]]]

\* add the edges of the triangle that are missing, then the cell
add_cell_and_edges(g, ns) ==
  IF g.exc # "none" THEN g
  ELSE LET g1 == IF nodes_to_edge(g, ns[1], ns[2]) = 0 THEN add_edge(g, ns[1], ns[2], FALSE) ELSE g
           g2 == IF nodes_to_edge(g1, ns[2], ns[3]) = 0 THEN add_edge(g1, ns[2], ns[3], FALSE) ELSE g1
           g3 == IF nodes_to_edge(g2, ns[3], ns[1]) = 0 THEN add_edge(g2, ns[3], ns[1], FALSE) ELSE g2
       IN add_cell(g3, ns)

dim(g) ==
  IF Ncells_valid(g) > 0 THEN 2
  ELSE IF Nedges_valid(g) > 0 THEN 1
  ELSE IF Nnodes_valid(g) > 0 THEN 0
  ELSE -1

(***************************************************************************)
(* Half-edges (unstructured_grid.HalfEdge): edge j seen from nodes[orient] *)
(* to nodes[1-orient], with cells[orient] on its left.  j = 0 is None; err *)
(* carries the exception met while navigating.                             *)
(***************************************************************************)
HalfEdge(j, orient) == [j |-> j, orient |-> orient, err |-> "none"]
NoHalfEdge(e) == [j |-> 0, orient |-> 0, err |-> e]

node_rev(g, he) == g.edges[he.j].nodes[he.orient + 1]
node_fwd(g, he) == g.edges[he.j].nodes[2 - he.orient]
he_cell(g, he) == g.edges[he.j].cells[he.orient + 1]
cell_opp(g, he) == g.edges[he.j].cells[2 - he.orient]
opposite(he) == [he EXCEPT !.orient = 1 - he.orient]

nodes_to_halfedge(g, a, b) ==
  Bind(nodes_to_edge(g, a, b), LAMBDA j :
  IF j = 0 THEN NoHalfEdge("none")
  ELSE HalfEdge(j, IF g.edges[j].nodes[1] = a THEN 0 ELSE 1))

\* the half-edge of the i-th edge of c that has c on its left
cell_to_halfedge(g, c, i) ==
  LET j == g.cells[c].edges[i]
  IN HalfEdge(j, IF g.edges[j].cells[1] = c THEN 0 ELSE 1)

(***************************************************************************)
(* topo_sort_adjacent_nodes: the neighbours of n counter-clockwise, read   *)
(* off the cells around n.  map_next sends the cell on the right of n->nbr *)
(* to (nbr, the cell on its left); the walk starts at the key written last *)
(* and must come back to it.                                               *)
(***************************************************************************)
RECURSIVE TopoWalk(_, _, _, _, _, _)
TopoWalk(key, val, trav0, trav, acc, fuel) ==
  LET hits == {i \in 1..Len(key) : key[i] = trav}
  IN IF hits = {} THEN [err |-> "KeyError", v |-> acc]
     ELSE LET i == CHOOSE i \in hits : \A k \in hits : k <= i
              acc1 == Append(acc, val[i][1])
          IN IF val[i][2] = trav0 THEN [err |-> "none", v |-> acc1]
             ELSE IF fuel = 0 THEN [err |-> "Hang", v |-> acc1]
             ELSE TopoWalk(key, val, trav0, val[i][2], acc1, fuel - 1)

topo_sort_adjacent_nodes(g, n) ==
  Bind(node_to_nodes(g, n), LAMBDA nbrs :
  IF Len(nbrs) < 3 THEN [err |-> "none", v |-> nbrs]
  ELSE Bind([i \in 1..Len(nbrs) |-> nodes_to_halfedge(g, n, nbrs[i])], LAMBDA hes :
       Bind([i \in 1..Len(nbrs) |-> cell_opp(g, hes[i])], LAMBDA key :
       Bind([i \in 1..Len(nbrs) |-> <<node_fwd(g, hes[i]), he_cell(g, hes[i])>>], LAMBDA val :
       TopoWalk(key, val, key[Len(nbrs)], key[Len(nbrs)], <<>>, Len(nbrs))))))

\* ref_nbr = 0 stands for ref_nbr=None
angle_sort_adjacent_nodes(g, n, ref_nbr) ==
  Bind(topo_sort_adjacent_nodes(g, n), LAMBDA s :
  IF s.err # "none" \/ ref_nbr = 0 THEN s
  ELSE Bind(IndexOf(ref_nbr, s.v), LAMBDA i :
       IF i = 0 THEN [err |-> "ValueError", v |-> s.v]
       ELSE [err |-> "none", v |-> Roll(s.v, i - 1)]))

\* HalfEdge.fwd: the next half-edge around the cell on the left
fwd(g, he) ==
  IF he.err # "none" THEN he
  ELSE IF he.j = 0 THEN NoHalfEdge("AttributeError")
  ELSE LET n1 == node_rev(g, he)
           n2 == node_fwd(g, he)
       IN Bind(angle_sort_adjacent_nodes(g, n2, n1), LAMBDA s :
          IF s.err # "none" THEN NoHalfEdge(s.err)
          ELSE nodes_to_halfedge(g, n2, s.v[Len(s.v)]))

\* HalfEdge.rev: the previous half-edge around the cell on the left
rev(g, he) ==
  IF he.err # "none" THEN he
  ELSE IF he.j = 0 THEN NoHalfEdge("AttributeError")
  ELSE LET n1 == node_rev(g, he)
           n2 == node_fwd(g, he)
       IN Bind(angle_sort_adjacent_nodes(g, n1, n2), LAMBDA s :
          IF s.err # "none" THEN NoHalfEdge(s.err)
          ELSE IF Len(s.v) < 2 THEN NoHalfEdge("IndexError")
          ELSE nodes_to_halfedge(g, s.v[2], n1))

\* a half-edge that cannot be used: None, or the trace of an exception
BadHE(he) == he.err # "none" \/ he.j = 0
HEError(he) == IF he.err # "none" THEN he.err ELSE "AttributeError"

(***************************************************************************)
(* locate: classify the target point t.  A location is                     *)
(*   [face, type, idx, he, err]                                            *)
(* idx is the current dimension (OUTSIDE_AFFINE_HULL), the nearest node    *)
(* (OUTSIDE_CONVEX_HULL in 1D), the edge (IN_EDGE) or the position of the  *)
(* vertex in the cell (IN_VERTEX); he is the hull half-edge                *)
(* (OUTSIDE_CONVEX_HULL in 2D).                                            *)
(***************************************************************************)
Loc(face, type, idx) ==
  [face |-> face, type |-> type, idx |-> idx, he |-> NoHalfEdge("none"), err |-> "none"]
LocError(e) ==
  [face |-> INF_CELL, type |-> -1, idx |-> 0, he |-> NoHalfEdge("none"), err |-> e]

choose_start_cell(g) ==
  LET cs == valid_cell_iter(g) IN IF Len(cs) = 0 THEN INF_CELL ELSE cs[1]

\* the edge walk of locate_1d from edge j; direc = +1/-1 along coord
RECURSIVE locate_1d_walk(_, _, _, _, _, _)
locate_1d_walk(g, t, coord, direc, j, fuel) ==
  IF g.py = 3 THEN LocError("NameError") ELSE
  LET p0 == X(g, g.edges[j].nodes[1])
      p1 == X(g, g.edges[j].nodes[2])
      n_adj == IF direc * cmp(p0[coord], p1[coord]) < 0
               THEN g.edges[j].nodes[2] ELSE g.edges[j].nodes[1]
  IN Bind(SelectSeq(node_to_edges(g, n_adj), LAMBDA k : k # j), LAMBDA others :
     IF Len(others) = 0 THEN Loc(INF_CELL, OUTSIDE_CONVEX_HULL, n_adj)
     ELSE LET jn == others[1]
              q0 == X(g, g.edges[jn].nodes[1])
              q1 == X(g, g.edges[jn].nodes[2])
          IN IF (t[coord] < q0[coord]) # (t[coord] < q1[coord])
             THEN Loc(INF_CELL, IN_EDGE, jn)
             ELSE IF fuel = 0 THEN LocError("Hang")
             ELSE locate_1d_walk(g, t, coord, direc, jn, fuel - 1))

locate_1d(g, t) ==
  LET j == valid_edge_iter(g)[1]
      p0 == X(g, g.edges[j].nodes[1])
      p1 == X(g, g.edges[j].nodes[2])
      coord == IF p0[1] # p1[1] THEN 1 ELSE 2
      direc == IF t[coord] < p0[coord] /\ t[coord] < p1[coord] THEN -1 ELSE 1
  IN IF orientation(p0, p1, t) # 0 THEN Loc(INF_CELL, OUTSIDE_AFFINE_HULL, 1)
     ELSE IF (t[coord] < p0[coord]) # (t[coord] < p1[coord]) THEN Loc(INF_CELL, IN_EDGE, j)
     ELSE locate_1d_walk(g, t, coord, direc, j, Len(g.edges))

\* the cell-to-cell walk of locate; last = the two nodes of the edge just
\* crossed, in the order of the cell that was left
RECURSIVE locate_walk(_, _, _, _, _)
locate_walk(g, t, c, last, fuel) ==
  IF c = INF_CELL
  THEN [Loc(INF_CELL, OUTSIDE_CONVEX_HULL, 0) EXCEPT !.he = nodes_to_halfedge(g, last[2], last[1])]
  ELSE LET cn == g.cells[c].nodes
           o0 == orientation(X(g, cn[1]), X(g, cn[2]), t)
           o1 == orientation(X(g, cn[2]), X(g, cn[3]), t)
           o2 == orientation(X(g, cn[3]), X(g, cn[1]), t)
           o_sum == (IF o0 = 0 THEN 1 ELSE 0) + (IF o1 = 0 THEN 1 ELSE 0) + (IF o2 = 0 THEN 1 ELSE 0)
           i == IF o0 = -1 THEN 1 ELSE IF o1 = -1 THEN 2 ELSE IF o2 = -1 THEN 3 ELSE 0
       IN IF i # 0
          THEN IF fuel = 0 THEN LocError("Hang")
               ELSE locate_walk(g, t, cell_to_cells(g, c)[i], <<cn[i], cn[(i % 3) + 1]>>, fuel - 1)
          ELSE IF o_sum = 0 THEN Loc(c, IN_FACE, 4)
          ELSE IF o_sum = 1
               THEN Loc(c, IN_EDGE, g.cells[c].edges[IF o0 = 0 THEN 1 ELSE IF o1 = 0 THEN 2 ELSE 3])
          ELSE IF o_sum = 2
               THEN Loc(c, IN_VERTEX, IF o0 # 0 THEN 3 ELSE IF o1 # 0 THEN 1 ELSE 2)
          ELSE LocError("AssertionError")

locate(g, t) ==
  IF Nnodes_valid(g) = 0 THEN Loc(INF_CELL, OUTSIDE_AFFINE_HULL, -1)
  ELSE IF Nedges_valid(g) = 0 THEN Loc(INF_CELL, OUTSIDE_AFFINE_HULL, 0)
  ELSE IF Ncells_valid(g) = 0 THEN locate_1d(g, t)
  ELSE locate_walk(g, t, choose_start_cell(g), <<0, 0>>, Len(g.cells))

(***************************************************************************)
(* A loop of the source for which the model knows of no run that does not  *)
(* end: should its (generous) iteration budget ever run out, evaluation    *)
(* stops with an error rather than with a made-up outcome.                 *)
(***************************************************************************)
Unmodelled == CHOOSE e \in {} : TRUE

(***************************************************************************)
(* flip_edge and legalization.                                             *)
(***************************************************************************)
\* the call flip_edge(j) is put on record
called_flip_edge(g, j) ==
  [g EXCEPT !.flips = Append(@, [j |-> j, edges |-> g.edges, cells |-> g.cells])]

flip_edge(g0, j) ==
  IF g0.exc # "none" THEN g0
  ELSE LET g == called_flip_edge(g0, j)
           c_left == g.edges[j].cells[1]
           c_right == g.edges[j].cells[2]
           na == g.edges[j].nodes[1]
           nc == g.edges[j].nodes[2]
       IN IF c_left <= 0 \/ c_right <= 0 THEN Raise(g, "AssertionError")
          ELSE Bind(fwd(g, HalfEdge(j, 0)), LAMBDA hd :
               Bind(fwd(g, HalfEdge(j, 1)), LAMBDA hb :
               IF BadHE(hd) THEN Raise(g, HEError(hd))
               ELSE IF BadHE(hb) THEN Raise(g, HEError(hb))
               ELSE LET nd == node_fwd(g, hd)
                        nb == node_fwd(g, hb)
                    IN add_cell(add_cell(modify_edge(delete_cell(delete_cell(g, c_left), c_right),
                                                     j, nb, nd),
                                         <<na, nb, nd>>),
                                <<nc, nd, nb>>)))

\* a defect for comparison: the loop does not look at edges['constrained']
RECURSIVE propagating_flip_loop_unguarded(_, _, _, _)
propagating_flip_loop_unguarded(g, stack, p, fuel) ==
  IF g.exc # "none" \/ stack = <<>> THEN g
  ELSE IF fuel = 0 THEN Raise(g, "Hang")
  ELSE LET he == stack[Len(stack)]
           popped == SubSeq(stack, 1, Len(stack) - 1)
       IN Bind(fwd(g, he), LAMBDA he_flip :
          IF BadHE(he_flip) THEN Raise(g, HEError(he_flip))
          ELSE LET nbr == cell_opp(g, he_flip)
                   nn == g.cells[nbr].nodes
               IN IF nbr > 0 /\ incircle(X(g, nn[1]), X(g, nn[2]), X(g, nn[3]), p) > 0
                  THEN Bind(flip_edge(g, he_flip.j), LAMBDA g1 :
                       IF g1.exc # "none" THEN g1
                       ELSE Bind(rev(g1, he), LAMBDA extra :
                            IF BadHE(extra) THEN Raise(g1, HEError(extra))
                            ELSE propagating_flip_loop_unguarded(g1, Append(stack, opposite(extra)),
                                                                 p, fuel - 1)))
                  ELSE propagating_flip_loop_unguarded(g, popped, p, fuel - 1))

\* the stack loop of propagating_flip; p is the position of the originating node
RECURSIVE propagating_flip_loop(_, _, _, _)
propagating_flip_loop(g, stack, p, fuel) ==
  IF g.exc # "none" \/ stack = <<>> THEN g
  ELSE IF fuel = 0 THEN Unmodelled
  ELSE LET he == stack[Len(stack)]
           popped == SubSeq(stack, 1, Len(stack) - 1)
       IN Bind(fwd(g, he), LAMBDA he_flip :
          IF BadHE(he_flip) THEN Raise(g, HEError(he_flip))
          ELSE IF g.edges[he_flip.j].constrained
               THEN propagating_flip_loop(g, popped, p, fuel - 1)
          ELSE LET nbr == cell_opp(g, he_flip)
                   nn == g.cells[nbr].nodes
               IN IF nbr > 0 /\ incircle(X(g, nn[1]), X(g, nn[2]), X(g, nn[3]), p) > 0
                  THEN Bind(flip_edge(g, he_flip.j), LAMBDA g1 :
                       IF g1.exc # "none" THEN g1
                       ELSE Bind(rev(g1, he), LAMBDA extra :
                            IF BadHE(extra) THEN Raise(g1, HEError(extra))
                            ELSE propagating_flip_loop(g1, Append(stack, opposite(extra)),
                                                       p, fuel - 1)))
                  ELSE propagating_flip_loop(g, popped, p, fuel - 1))

propagating_flip(g, c, i) ==
  IF g.exc # "none" THEN g
  ELSE propagating_flip_loop(g, <<cell_to_halfedge(g, c, i)>>, X(g, g.cells[c].nodes[i]),
                             8 * (Len(g.edges) + 1))

\* the sweep of restore_delaunay around n
RECURSIVE restore_delaunay_loop(_, _, _, _, _, _)
restore_delaunay_loop(g, n, start, trav, trav_next, fuel) ==
  IF g.exc # "none" THEN g
  ELSE IF fuel = 0 THEN Unmodelled
  ELSE Bind(angle_sort_adjacent_nodes(g, n, trav_next), LAMBDA s :
       IF s.err # "none" THEN Raise(g, s.err)
       ELSE IF Len(s.v) < 2 THEN Raise(g, "IndexError")
       ELSE Bind(nodes_to_cell(g, {n, trav, trav_next}), LAMBDA c :
            Bind(IF c # 0 THEN propagating_flip(g, c, IndexOf(n, g.cells[c].nodes)) ELSE g,
                 LAMBDA g1 :
            IF trav_next = start THEN g1
            ELSE restore_delaunay_loop(g1, n, start, trav_next, s.v[2], fuel - 1))))

restore_delaunay(g, n) ==
  IF g.exc # "none" \/ dim(g) <= 1 THEN g
  ELSE Bind(angle_sort_adjacent_nodes(g, n, 0), LAMBDA s :
       IF s.err # "none" THEN Raise(g, s.err)
       ELSE IF Len(s.v) < 2 THEN Raise(g, "IndexError")
       ELSE restore_delaunay_loop(g, n, s.v[1], s.v[1], s.v[2], 4 * (Len(g.edges) + 1)))

(***************************************************************************)
(* Insertion.                                                              *)
(***************************************************************************)
tri_insert_in_face(g, n, loc) ==
  LET cn == g.cells[loc.face].nodes
      a == cn[1]  b == cn[2]  c == cn[3]
      g1 == delete_cell(g, loc.face)
      g2 == add_edge(add_edge(add_edge(g1, n, a, FALSE), n, b, FALSE), n, c, FALSE)
  IN add_cell(add_cell(add_cell(g2, <<n, a, b>>), <<n, b, c>>), <<n, c, a>>)

\* one split cell of tri_insert_in_edge: the spoke to its apex and the two halves
split_cell(g, cn, a, c, b) ==
  LET common == SelectSeq(cn, LAMBDA m : m # a /\ m # c)[1]
      g1 == add_edge(g, b, common, FALSE)
      Repl(old) == [i \in 1..3 |-> IF i = IndexOf(old, cn) THEN b ELSE cn[i]]
  IN add_cell(add_cell(g1, Repl(a)), Repl(c))

tri_insert_in_edge(g, n, loc) ==
  LET j == loc.idx
      c1 == g.edges[j].cells[1]
      c2 == g.edges[j].cells[2]
      a == g.edges[j].nodes[1]
      c == g.edges[j].nodes[2]
  IN Bind(IF c1 > 0 THEN delete_cell(g, c1) ELSE g, LAMBDA g1 :
     Bind(IF c2 > 0 THEN delete_cell(g1, c2) ELSE g1, LAMBDA g2 :
     Bind(add_edge(add_edge(delete_edge(g2, j), a, n, FALSE), n, c, FALSE), LAMBDA g3 :
     Bind(IF c1 > 0 THEN split_cell(g3, g.cells[c1].nodes, a, c, n) ELSE g3, LAMBDA g4 :
     IF c2 > 0 THEN split_cell(g4, g.cells[c2].nodes, a, c, n) ELSE g4))))

tri_insert_outside_convex_hull_1d(g, n, loc) == add_edge(g, n, loc.idx, FALSE)

\* he sees n strictly on its left
check_halfedge(g, he, n) ==
  orientation(X(g, node_rev(g, he)), X(g, node_fwd(g, he)), X(g, n)) > 0

\* the hull half-edges after (dir = 1) or before (dir = -1) he0 that see n
RECURSIVE hull_collect(_, _, _, _, _, _)
hull_collect(g, n, dir, he, acc, fuel) ==
  IF BadHE(he) THEN [err |-> HEError(he), v |-> acc]
  ELSE IF ~check_halfedge(g, he, n) THEN [err |-> "none", v |-> acc]
  ELSE IF fuel = 0 THEN [err |-> "Hang", v |-> acc]
  ELSE hull_collect(g, n, dir, IF dir = 1 THEN fwd(g, he) ELSE rev(g, he),
                    Append(acc, he), fuel - 1)

RECURSIVE add_hull_cells(_, _, _, _, _)
add_hull_cells(g, g0, n, hes, dir) ==
  IF hes = <<>> \/ g.exc # "none" THEN g
  ELSE LET he == hes[1]
           far == IF dir = 1 THEN node_fwd(g0, he) ELSE node_rev(g0, he)
       IN add_hull_cells(add_cell(add_edge(g, far, n, FALSE),
                                  <<node_rev(g0, he), node_fwd(g0, he), n>>),
                         g0, n, Tail(hes), dir)

tri_insert_outside_convex_hull_2d(g, n, loc) ==
  LET he0 == loc.he
      a == node_rev(g, he0)
      b == node_fwd(g, he0)
  IN IF loc.face # INF_CELL THEN Raise(g, "AssertionError")
     ELSE IF BadHE(he0) THEN Raise(g, HEError(he0))
     ELSE IF ~check_halfedge(g, he0, n) THEN Raise(g, "AssertionError")
     ELSE Bind(hull_collect(g, n, 1, fwd(g, he0), <<>>, 2 * Len(g.edges)), LAMBDA addl_fwd :
          IF addl_fwd.err # "none" THEN Raise(g, addl_fwd.err)
          ELSE Bind(hull_collect(g, n, -1, rev(g, he0), <<>>, 2 * Len(g.edges)), LAMBDA addl_rev :
               IF addl_rev.err # "none" THEN Raise(g, addl_rev.err)
               ELSE Bind(add_cell(add_edge(add_edge(g, a, n, FALSE), b, n, FALSE), <<a, b, n>>),
                         LAMBDA g1 :
                    add_hull_cells(add_hull_cells(g1, g, n, addl_fwd.v, 1),
                                   g, n, addl_rev.v, -1))))

tri_insert_outside_convex_hull(g, n, loc) ==
  IF dim(g) = 2 THEN tri_insert_outside_convex_hull_2d(g, n, loc)
  ELSE IF dim(g) = 1 THEN tri_insert_outside_convex_hull_1d(g, n, loc)
  ELSE Raise(g, "AssertionError")

RECURSIVE add_spokes(_, _, _)
add_spokes(g, n, nbrs) ==
  IF nbrs = <<>> THEN g
  ELSE add_spokes(IF nbrs[1] # n THEN add_edge(g, n, nbrs[1], FALSE) ELSE g, n, Tail(nbrs))

RECURSIVE add_fan(_, _, _, _)
add_fan(g, g0, n, js) ==
  IF js = <<>> \/ g.exc # "none" THEN g
  ELSE add_fan(add_cell(g, <<n, g0.edges[js[1]].nodes[1], g0.edges[js[1]].nodes[2]>>),
               g0, n, Tail(js))

tri_insert_outside_affine_hull(g, n, loc) ==
  IF loc.idx = -1 THEN g
  ELSE IF loc.idx = 0 THEN add_spokes(g, n, valid_node_iter(g))
  ELSE IF loc.idx = 1
       THEN add_fan(add_spokes(g, n, valid_node_iter(g)), g, n, valid_edge_iter(g))
  ELSE Raise(g, "AssertionError")

tri_insert(g, n, loc) ==
  IF g.exc # "none" THEN g
  ELSE LET g1 == IF loc.type = IN_FACE THEN tri_insert_in_face(g, n, loc)
                 ELSE IF loc.type = IN_EDGE THEN tri_insert_in_edge(g, n, loc)
                 ELSE IF loc.type = IN_VERTEX THEN Raise(g, "DuplicateNode")
                 ELSE IF loc.type = OUTSIDE_CONVEX_HULL THEN tri_insert_outside_convex_hull(g, n, loc)
                 ELSE IF loc.type = OUTSIDE_AFFINE_HULL THEN tri_insert_outside_affine_hull(g, n, loc)
                 ELSE g
       IN restore_delaunay(g1, n)

\* index = 0 appends the node; index = n re-creates the deleted node n
add_node(g, x, index) ==
  IF g.exc # "none" THEN g
  ELSE Bind(locate(g, x), LAMBDA loc :
       IF loc.err # "none" THEN Raise(g, loc.err)
       ELSE tri_insert(base_add_node(g, x, index),
                       IF index = 0 THEN Len(g.nodes) + 1 ELSE index, loc))

(***************************************************************************)
(* fill_hole: re-triangulate hole boundaries; 'inf' marks a gap that opens *)
(* on the outside of the convex hull.                                      *)
(***************************************************************************)
INF_HOLE == 0

\* rotate until neither of the first two entries is 'inf'
RECURSIVE rotate_hole(_, _)
rotate_hole(h, fuel) ==
  IF ~InSeq(INF_HOLE, SubSeq(h, 1, IF Len(h) < 2 THEN Len(h) ELSE 2)) THEN [err |-> "none", v |-> h]
  ELSE IF fuel = 0 THEN [err |-> "Hang", v |-> h]
  ELSE rotate_hole(Roll(h, 1), fuel - 1)

\* the first candidate with no later candidate strictly inside circle(a,b,c)
RECURSIVE delaunay_candidate(_, _, _, _)
delaunay_candidate(g, a, b, cand) ==
  IF Len(cand) <= 1 THEN cand
  ELSE IF \E k \in 2..Len(cand) :
            incircle(X(g, a), X(g, b), X(g, cand[1]), X(g, cand[k])) > 0
       THEN delaunay_candidate(g, a, b, Tail(cand))
       ELSE <<cand[1]>>

RECURSIVE fill_hole_loop(_, _, _)
fill_hole_loop(g, holes, fuel) ==
  IF g.exc # "none" \/ holes = <<>> THEN g
  ELSE IF fuel = 0 THEN Unmodelled
  ELSE Bind(rotate_hole(holes[Len(holes)], Len(holes[Len(holes)])), LAMBDA r :
       IF r.err # "none" THEN Raise(g, r.err)
       ELSE IF Len(r.v) < 2 THEN Raise(g, "ValueError")
       ELSE LET rest == SubSeq(holes, 1, Len(holes) - 1)
                h == r.v
                a == h[1]
                b == h[2]
                c_cand1 == SubSeq(h, 3, Len(h))
                has_inf == InSeq(INF_HOLE, c_cand1)
            IN Bind(delaunay_candidate(g, a, b,
                      SelectSeq(c_cand1, LAMBDA c : c # INF_HOLE
                                  /\ orientation(X(g, a), X(g, b), X(g, c)) > 0)),
                    LAMBDA c_cand2 :
               IF ~has_inf /\ c_cand2 = <<>> THEN Raise(g, "IndexError")
               ELSE Bind(IF has_inf /\ c_cand2 = <<>> THEN INF_HOLE ELSE c_cand2[1], LAMBDA c :
                    Bind(IF c # INF_HOLE THEN add_cell_and_edges(g, <<a, b, c>>) ELSE g,
                         LAMBDA g1 :
                    Bind(IndexOf(c, h), LAMBDA idx :
                    IF g1.exc # "none" THEN g1
                    ELSE IF Len(h) = 3 THEN fill_hole_loop(g1, rest, fuel - 1)
                    ELSE IF c = h[3]
                         THEN fill_hole_loop(g1, Append(rest, <<a, c>> \o SubSeq(h, 4, Len(h))),
                                             fuel - 1)
                    ELSE IF c = h[Len(h)]
                         THEN fill_hole_loop(g1, Append(rest, Tail(h)), fuel - 1)
                    ELSE fill_hole_loop(g1, rest \o << SubSeq(h, 2, idx),
                                                      SubSeq(h, idx, Len(h)) \o <<h[1]>> >>,
                                        fuel - 1))))))

fill_hole(g, hole_nodes) ==
  IF g.exc # "none" THEN g
  ELSE fill_hole_loop(g, <<hole_nodes>>, 4 * (Len(hole_nodes) + 1))

(***************************************************************************)
(* Deletion.                                                               *)
(***************************************************************************)
RECURSIVE delete_edges(_, _)
delete_edges(g, js) ==
  IF js = <<>> THEN g ELSE delete_edges(delete_edge(g, js[1]), Tail(js))

RECURSIVE delete_cells(_, _)
delete_cells(g, cs) ==
  IF cs = <<>> THEN g ELSE delete_cells(delete_cell(g, cs[1]), Tail(cs))

RECURSIVE delete_edges_cascade(_, _)
delete_edges_cascade(g, js) ==
  IF js = <<>> THEN g ELSE delete_edges_cascade(delete_edge_cascade(g, js[1]), Tail(js))

delete_node_1d(g, n) ==
  Bind(node_to_nodes(g, n), LAMBDA nbrs :
  IF Len(nbrs) = 1
  THEN base_delete_node(delete_edge(g, nodes_to_edge(g, n, nbrs[1])), n)
  ELSE IF Len(nbrs) # 2 THEN Raise(g, "AssertionError")
  ELSE add_edge(base_delete_node(delete_edge(delete_edge(g, nodes_to_edge(g, n, nbrs[1])),
                                             nodes_to_edge(g, n, nbrs[2])), n),
                nbrs[1], nbrs[2], FALSE))

\* deleting n leaves a 1D triangulation: every cell holds n and the other
\* nodes are collinear with the first two of them
test_delete_node_dim_down(g, n) ==
  LET others == SelectSeq(valid_node_iter(g), LAMBDA i : i # n)
  IN /\ \A c \in 1..Len(g.cells) :
          ~g.cells[c].deleted => \E i \in 1..3 : g.cells[c].nodes[i] = n
     /\ \A k \in 3..Len(others) :
          orientation(X(g, others[1]), X(g, others[2]), X(g, others[k])) = 0

\* the hole around n: its sorted neighbours, with 'inf' after a neighbour
\* whose half-edge to the next one has no cell of n on its left
RECURSIVE hole_around(_, _, _, _)
hole_around(g, n, nbrs, k) ==
  IF k > Len(nbrs) THEN <<>>
  ELSE LET nbrA == nbrs[k]
           nbrB == nbrs[(k % Len(nbrs)) + 1]
       IN Bind(nodes_to_halfedge(g, nbrA, nbrB), LAMBDA he :
          LET open == \/ he.j = 0
                      \/ he_cell(g, he) <= 0
                      \/ \A i \in 1..3 : g.cells[he_cell(g, he)].nodes[i] # n
          IN (IF open THEN <<nbrA, INF_HOLE>> ELSE <<nbrA>>) \o hole_around(g, n, nbrs, k + 1))

\* what delete_node_2d hands to fill_hole: the grid without n and its spokes,
\* and the boundary of the hole
delete_node_2d_hole(g, n) ==
  Bind(angle_sort_adjacent_nodes(g, n, 0), LAMBDA s :
  IF s.err # "none" THEN [err |-> s.err, grid |-> g, hole_nodes |-> <<>>]
  ELSE Bind([k \in 1..Len(s.v) |-> nodes_to_edge(g, n, s.v[k])], LAMBDA edges_to_delete :
       [err |-> "none",
        grid |-> base_delete_node(delete_edges_cascade(g, edges_to_delete), n),
        hole_nodes |-> hole_around(g, n, s.v, 1)]))

delete_node_2d(g, n) ==
  IF dim(g) # 2 THEN Raise(g, "AssertionError")
  ELSE IF test_delete_node_dim_down(g, n)
  THEN base_delete_node(delete_edges(delete_cells(g, valid_cell_iter(g)), node_to_edges(g, n)), n)
  ELSE Bind(delete_node_2d_hole(g, n), LAMBDA h :
       IF h.err # "none" THEN Raise(g, h.err)
       ELSE fill_hole(h.grid, h.hole_nodes))

delete_node(g, n) ==
  IF g.exc # "none" THEN g
  ELSE LET N == Nnodes_valid(g)
       IN IF N = 1 THEN base_delete_node(g, n)
          ELSE IF N = 2
               THEN IF Len(node_to_edges(g, n)) = 0 THEN Raise(g, "IndexError")
                    ELSE base_delete_node(delete_edge(g, node_to_edges(g, n)[1]), n)
          ELSE IF dim(g) = 1 THEN delete_node_1d(g, n)
          ELSE delete_node_2d(g, n)

(***************************************************************************)
(* Constraints.  An element of the intersection history is                 *)
(*   [kind |-> "node" | "edge" | "cell", id, he]                           *)
(***************************************************************************)
NodeElt(n) == [kind |-> "node", id |-> n, he |-> NoHalfEdge("none")]
CellElt(c) == [kind |-> "cell", id |-> c, he |-> NoHalfEdge("none")]
EdgeElt(he) == [kind |-> "edge", id |-> he.j, he |-> he]

\* given collinear points, are they in order along their line
ordered(x1, x2, x3) ==
  LET i == IF x1[1] # x2[1] THEN 1 ELSE 2
  IN (x1[i] < x2[i]) = (x2[i] < x3[i])

\* at node ntrav: the cells around it in turn, until one decides the next
\* element; <<>> when none does
RECURSIVE leave_node(_, _, _, _, _)
leave_node(g, nA, nB, ntrav, cs) ==
  IF cs = <<>> THEN <<>>
  ELSE LET c == cs[1]
           cn == g.cells[c].nodes
           ci == IndexOf(ntrav, cn)
           nD == cn[(ci % 3) + 1]
           nE == cn[((ci + 1) % 3) + 1]
           oD == orientation(X(g, nA), X(g, nB), X(g, nD))
           oE == orientation(X(g, nA), X(g, nB), X(g, nE))
           j == g.cells[c].edges[(ci % 3) + 1]
       IN IF nD = nB \/ nE = nB THEN <<NodeElt(nB)>>
          ELSE IF oD > 0 THEN leave_node(g, nA, nB, ntrav, Tail(cs))
          ELSE IF oD = 0 /\ ordered(X(g, ntrav), X(g, nD), X(g, nB)) THEN <<NodeElt(nD)>>
          ELSE IF oE < 0 THEN leave_node(g, nA, nB, ntrav, Tail(cs))
          ELSE IF oE = 0 /\ ordered(X(g, ntrav), X(g, nE), X(g, nB)) THEN <<NodeElt(nE)>>
          ELSE IF g.edges[j].cells[1] = c THEN <<CellElt(c), EdgeElt(HalfEdge(j, 0))>>
          ELSE IF g.edges[j].cells[2] = c THEN <<CellElt(c), EdgeElt(HalfEdge(j, 1))>>
          ELSE <<NodeElt(-1)>>

\* the 2D walk; the result is [err, v].  The next element depends on trav
\* alone, so the loop never ends once trav is an element it has left before
\* (seen).
RECURSIVE walk_2d(_, _, _, _, _, _)
walk_2d(g, nA, nB, trav, history, seen) ==
  IF trav = NodeElt(nB) THEN [err |-> "none", v |-> history]
  ELSE IF trav \in seen THEN [err |-> "Hang", v |-> history]
  ELSE IF trav.kind = "node"
  THEN Bind(leave_node(g, nA, nB, trav.id, node_to_cells(g, trav.id)), LAMBDA nxt :
       IF nxt = <<>> THEN [err |-> "Hang", v |-> history]
       ELSE IF nxt = <<NodeElt(-1)>> THEN [err |-> "AssertionError", v |-> history]
       ELSE walk_2d(g, nA, nB, nxt[Len(nxt)], history \o nxt, seen \cup {trav}))
  ELSE LET he == opposite(trav.he)
           c_next == he_cell(g, he)
       IN Bind(fwd(g, he), LAMBDA hf :
          IF BadHE(hf) THEN [err |-> HEError(hf), v |-> history]
          ELSE LET nD == node_fwd(g, hf)
                   oD == orientation(X(g, nA), X(g, nB), X(g, nD))
               IN Bind(rev(g, he), LAMBDA hr :
                  IF oD < 0 /\ BadHE(hr) THEN [err |-> HEError(hr), v |-> history]
                  ELSE Bind(IF oD = 0 THEN NodeElt(nD)
                            ELSE IF oD > 0 THEN EdgeElt(hf) ELSE EdgeElt(hr), LAMBDA nxt :
                       walk_2d(g, nA, nB, nxt, history \o <<CellElt(c_next), nxt>>,
                               seen \cup {trav}))))

\* the 1D walk along the chain, from half-edge he; it never ends once he is
\* a half-edge it has left before (seen)
RECURSIVE walk_1d(_, _, _, _, _)
walk_1d(g, nB, he, history, seen) ==
  IF history[Len(history)] = NodeElt(nB) THEN [err |-> "none", v |-> history]
  ELSE IF he \in seen THEN [err |-> "Hang", v |-> history]
  ELSE Bind(fwd(g, he), LAMBDA hf :
       IF BadHE(hf) THEN [err |-> HEError(hf), v |-> history]
       ELSE walk_1d(g, nB, hf, Append(history, NodeElt(node_fwd(g, hf))), seen \cup {he}))

\* the first neighbour of nA that is nB or lies towards nB; 0 when none
first_towards(g, nA, nB, nbrs) ==
  LET ks == {k \in 1..Len(nbrs) : nbrs[k] = nB \/ ordered(X(g, nA), X(g, nbrs[k]), X(g, nB))}
  IN IF ks = {} THEN 0 ELSE nbrs[CHOOSE k \in ks : \A m \in ks : k <= m]

find_intersected_elements(g, nA, nB) ==
  IF nA = nB \/ g.nodes[nA].deleted \/ g.nodes[nB].deleted
  THEN [err |-> "AssertionError", v |-> <<>>]
  ELSE IF dim(g) = 1
  THEN Bind(first_towards(g, nA, nB, node_to_nodes(g, nA)), LAMBDA n_nbr :
       IF n_nbr = 0 THEN [err |-> "AssertionError", v |-> <<NodeElt(nA)>>]
       ELSE IF n_nbr = nB THEN [err |-> "none", v |-> <<NodeElt(nA), NodeElt(nB)>>]
       ELSE walk_1d(g, nB, nodes_to_halfedge(g, nA, n_nbr),
                    <<NodeElt(nA), NodeElt(n_nbr)>>, {}))
  ELSE walk_2d(g, nA, nB, NodeElt(nA), <<NodeElt(nA)>>, {})

\* the check of the crossed elements: the first collinear node or crossed
\* constraint raises; otherwise the two boundary chains and the dead elements
RECURSIVE scan_elements(_, _, _)
scan_elements(g, elts, acc) ==
  IF elts = <<>> THEN acc
  ELSE LET elt == elts[1]
           next_left == node_fwd(g, elt.he)
           next_right == node_rev(g, elt.he)
       IN IF elt.kind = "node" THEN [acc EXCEPT !.exc = "ConstraintCollinearNode"]
          ELSE IF elt.kind = "cell"
               THEN scan_elements(g, Tail(elts), [acc EXCEPT !.dead_cells = Append(@, elt.id)])
          ELSE IF g.edges[elt.id].constrained THEN [acc EXCEPT !.exc = "IntersectingConstraints"]
          ELSE scan_elements(g, Tail(elts),
                 [acc EXCEPT
                    !.left = IF @[Len(@)] # next_left THEN Append(@, next_left) ELSE @,
                    !.right = IF @[Len(@)] # next_right THEN Append(@, next_right) ELSE @,
                    !.dead_edges = Append(@, elt.id)])

\* a defect for comparison: the crossed cells are deleted as the walk is
\* checked, before the obstruction is found
add_constraint_eager(g, nA, nB) ==
  IF g.exc # "none" THEN g
  ELSE Bind(nodes_to_edge(g, nA, nB), LAMBDA jAB :
       IF jAB # 0
       THEN IF g.edges[jAB].constrained THEN Raise(g, "AssertionError")
            ELSE [g EXCEPT !.edges[jAB].constrained = TRUE]
       ELSE Bind(find_intersected_elements(g, nA, nB), LAMBDA int_elts :
            IF int_elts.err # "none" THEN Raise(g, int_elts.err)
            ELSE Bind(scan_elements(g, SubSeq(int_elts.v, 2, Len(int_elts.v) - 1),
                                    [exc |-> "none", left |-> <<nA>>, right |-> <<nA>>,
                                     dead_cells |-> <<>>, dead_edges |-> <<>>]), LAMBDA sc :
                 IF sc.exc # "none" THEN Raise(delete_cells(g, sc.dead_cells), sc.exc)
                 ELSE LET left_nodes == Rev(Append(sc.left, nB))
                          right_nodes == Append(sc.right, nB)
                      IN fill_hole(fill_hole(add_edge(delete_edges(delete_cells(g, sc.dead_cells),
                                                                   sc.dead_edges),
                                                      nA, nB, TRUE),
                                             left_nodes),
                                   right_nodes))))

\* what add_constraint hands to fill_hole when nA and nB share no edge: the
\* grid with the crossed cells and edges removed and the constrained edge
\* added, and the chains of nodes to its left and to its right
add_constraint_holes(g, nA, nB) ==
  Bind(find_intersected_elements(g, nA, nB), LAMBDA int_elts :
  IF int_elts.err # "none"
  THEN [err |-> int_elts.err, grid |-> g, left_nodes |-> <<>>, right_nodes |-> <<>>]
  ELSE Bind(scan_elements(g, SubSeq(int_elts.v, 2, Len(int_elts.v) - 1),
                          [exc |-> "none", left |-> <<nA>>, right |-> <<nA>>,
                           dead_cells |-> <<>>, dead_edges |-> <<>>]), LAMBDA sc :
       IF sc.exc # "none"
       THEN [err |-> sc.exc, grid |-> g, left_nodes |-> <<>>, right_nodes |-> <<>>]
       ELSE [err |-> "none",
             grid |-> add_edge(delete_edges(delete_cells(g, sc.dead_cells), sc.dead_edges),
                               nA, nB, TRUE),
             left_nodes |-> Rev(Append(sc.left, nB)),
             right_nodes |-> Append(sc.right, nB)]))

add_constraint(g, nA, nB) ==
  IF g.exc # "none" THEN g
  ELSE Bind(nodes_to_edge(g, nA, nB), LAMBDA jAB :
       IF jAB # 0
       THEN IF g.edges[jAB].constrained THEN Raise(g, "AssertionError")
            ELSE [g EXCEPT !.edges[jAB].constrained = TRUE]
       ELSE Bind(add_constraint_holes(g, nA, nB), LAMBDA h :
            IF h.err # "none" THEN Raise(g, h.err)
            ELSE fill_hole(fill_hole(h.grid, h.left_nodes), h.right_nodes)))

remove_constraint(g, nA, nB) ==
  IF g.exc # "none" THEN g
  ELSE Bind(nodes_to_edge(g, nA, nB), LAMBDA j :
       IF j = 0 THEN Raise(g, "TypeError")
       ELSE IF ~g.edges[j].constrained THEN Raise(g, "AssertionError")
       ELSE LET c1 == g.edges[j].cells[1]
                c2 == g.edges[j].cells[2]
                g1 == [g EXCEPT !.edges[j].constrained = FALSE]
                apex == {i \in 1..3 : g.cells[c1].nodes[i] \notin
                                        {g.edges[j].nodes[1], g.edges[j].nodes[2]}}
            IN IF c1 > 0 /\ c2 > 0 /\ apex # {}
               THEN propagating_flip(g1, c1, CHOOSE i \in apex : \A k \in apex : i <= k)
               ELSE g1)

(***************************************************************************)
(* modify_node(n, x=x): save the constraints at n, delete n, re-insert it  *)
(* under the same id, re-add the constraints; roll back when one of them   *)
(* raises IntersectingConstraints.                                         *)
(***************************************************************************)
RECURSIVE add_constraints(_, _)
add_constraints(g, pairs) ==
  IF pairs = <<>> \/ g.exc # "none" THEN g
  ELSE add_constraints(add_constraint(g, pairs[1][1], pairs[1][2]), Tail(pairs))

\* a defect for comparison: the failure of a re-added constraint is passed on
\* without moving the node back
modify_node_no_rollback(g, n, x) ==
  IF g.exc # "none" THEN g
  ELSE LET cj == SelectSeq(node_to_edges(g, n), LAMBDA j : g.edges[j].constrained)
       IN Bind([k \in 1..Len(cj) |-> g.edges[cj[k]].nodes], LAMBDA constraints_to_replace :
          add_constraints(add_node(delete_node(g, n), x, n), constraints_to_replace))

modify_node(g, n, x) ==
  IF g.exc # "none" THEN g
  ELSE LET cj == SelectSeq(node_to_edges(g, n), LAMBDA j : g.edges[j].constrained)
           old_x == X(g, n)
       IN Bind([k \in 1..Len(cj) |-> g.edges[cj[k]].nodes], LAMBDA constraints_to_replace :
          Bind(add_constraints(add_node(delete_node(g, n), x, n), constraints_to_replace),
               LAMBDA g1 :
          IF g1.exc # "IntersectingConstraints" THEN g1
          ELSE Bind(add_constraints(add_node(delete_node(Raise(g1, "none"), n), old_x, n),
                                    constraints_to_replace), LAMBDA back :
               IF back.exc # "none" THEN back
               ELSE Raise(back, "IntersectingConstraints"))))

(***************************************************************************)
(* The state machine: a caller issuing public calls on one triangulation.  *)
(* A call that raises one of the documented exceptions returns control to  *)
(* the caller, who may go on; any other exception, or a call that does not *)
(* return, ends the run.                                                   *)
(***************************************************************************)
Grid ==
  [nodes |-> nodes, edges |-> edges, cells |-> cells, exc |-> "none", py |-> py, flips |-> <<>>]

\* a grid without nodes or edges, and a dict without keys
EmptyPrimary == [nodes |-> <<>>, edges |-> <<>>]

EmptyDict == [n \in {} |-> 0]

\* the driver before its loop has visited a site
NoFront == [count |-> 0, site |-> <<>>, metrics |-> <<>>, best |-> 0, ran |-> "none"]

\* a triangulation used on its own: no primary grid, no map, no driver
Standalone == primary = EmptyPrimary /\ nodemap_g_to_local = EmptyDict /\ front = NoFront

NoOp == [name |-> "init", a |-> 0, b |-> 0, x |-> <<>>]

Live == {n \in 1..Len(nodes) : ~nodes[n].deleted}

ConstrainedEdges == {j \in 1..Len(edges) : ~edges[j].deleted /\ edges[j].constrained}

\* the effect of one call: g is the triangulation the call leaves behind
Call(g, o) ==
  /\ nodes' = g.nodes
  /\ edges' = g.edges
  /\ cells' = g.cells
  /\ exc' = g.exc
  /\ op' = o
  /\ pre' = [nodes |-> nodes, edges |-> edges, cells |-> cells]
  /\ nops' = nops + 1
  /\ py' = py
  /\ UNCHANGED <<primary, nodemap_g_to_local, front>>

Ready(max) == exc \in Documented /\ nops < max

AddNode(x, max) ==
  /\ Ready(max)
  /\ Call(add_node(Grid, x, 0), [name |-> "add_node", a |-> Len(nodes) + 1, b |-> 0, x |-> x])

DeleteNode(n, max) ==
  /\ Ready(max)
  /\ n \in Live
  /\ Call(delete_node(Grid, n), [name |-> "delete_node", a |-> n, b |-> 0, x |-> <<>>])

AddConstraint(nA, nB, max) ==
  /\ Ready(max)
  /\ nA \in Live /\ nB \in Live /\ nA # nB
  /\ Call(add_constraint(Grid, nA, nB), [name |-> "add_constraint", a |-> nA, b |-> nB, x |-> <<>>])

RemoveConstraint(j, max) ==
  /\ Ready(max)
  /\ j \in ConstrainedEdges
  /\ Call(remove_constraint(Grid, edges[j].nodes[1], edges[j].nodes[2]),
          [name |-> "remove_constraint", a |-> edges[j].nodes[1], b |-> edges[j].nodes[2], x |-> <<>>])

ModifyNode(n, x, max) ==
  /\ Ready(max)
  /\ n \in Live
  /\ x # nodes[n].x
  /\ Call(modify_node(Grid, n, x), [name |-> "modify_node", a |-> n, b |-> 0, x |-> x])

Init ==
  /\ nodes = <<>>
  /\ edges = <<>>
  /\ cells = <<>>
  /\ exc = "none"
  /\ op = NoOp
  /\ pre = [nodes |-> <<>>, edges |-> <<>>, cells |-> <<>>]
  /\ nops = 0
  /\ py \in Interpreters
  /\ Standalone

Next ==
  \/ \E x \in Points : AddNode(x, MaxOps)
  \/ \E n \in 1..Len(nodes) : DeleteNode(n, MaxOps)
  \/ \E nA, nB \in 1..Len(nodes) : AddConstraint(nA, nB, MaxOps)
  \/ \E j \in 1..Len(edges) : RemoveConstraint(j, MaxOps)
  \/ \E n \in 1..Len(nodes), x \in Points : ModifyNode(n, x, MaxOps)

Spec == Init /\ [][Next]_vars

\* the triangulation of BasePoints, inserted in order
RECURSIVE Build(_, _)
Build(g, pts) == IF pts = <<>> THEN g ELSE Build(add_node(g, pts[1], 0), Tail(pts))

BaseGrid(v) == Build(EmptyGrid(v), BasePoints)

InitCDT ==
  /\ py \in Interpreters
  /\ nodes = BaseGrid(py).nodes
  /\ edges = BaseGrid(py).edges
  /\ cells = BaseGrid(py).cells
  /\ exc = BaseGrid(py).exc
  /\ op = NoOp
  /\ pre = [nodes |-> nodes, edges |-> edges, cells |-> cells]
  /\ nops = 0
  /\ Standalone

NextCDT ==
  \/ \E x \in Points : AddNode(x, MaxOpsCDT)
  \/ \E n \in 1..Len(nodes) : DeleteNode(n, MaxOpsCDT)
  \/ \E nA, nB \in 1..Len(nodes) : AddConstraint(nA, nB, MaxOpsCDT)
  \/ \E j \in 1..Len(edges) : RemoveConstraint(j, MaxOpsCDT)
  \/ \E n \in 1..Len(nodes), x \in Points : ModifyNode(n, x, MaxOpsCDT)

SpecCDT == InitCDT /\ [][NextCDT]_vars

\* a caller that only moves nodes of the prebuilt triangulation
NextMove == \E n \in 1..Len(nodes), x \in Points : ModifyNode(n, x, MaxMoves)

SpecMove == InitCDT /\ [][NextMove]_vars

\* the pinwheel, built by add_node and add_constraint calls that all return,
\* and the tooth, built by add_node calls
BuiltGrids ==
  {add_constraints(Build(EmptyGrid(v), PinwheelPoints), PinwheelConstraints) : v \in Interpreters}
  \cup {Build(EmptyGrid(v), ToothPoints) : v \in Interpreters}

InitBuilt ==
  /\ \E G \in BuiltGrids :
        /\ G.exc = "none"
        /\ py = G.py
        /\ nodes = G.nodes
        /\ edges = G.edges
        /\ cells = G.cells
  /\ exc = "none"
  /\ op = NoOp
  /\ pre = [nodes |-> nodes, edges |-> edges, cells |-> cells]
  /\ nops = 0
  /\ Standalone

\* a caller that goes on from a prebuilt triangulation
NextBuilt ==
  \/ \E x \in ProbePoints : AddNode(x, MaxOpsBuilt)
  \/ \E n \in 1..Len(nodes) : DeleteNode(n, MaxOpsBuilt)
  \/ \E nA, nB \in 1..Len(nodes) : AddConstraint(nA, nB, MaxOpsBuilt)

SpecBuilt == InitBuilt /\ [][NextBuilt]_vars

\* a caller that builds a triangulation from points of a few lines
NextLine == \E x \in LinePoints : AddNode(x, MaxOpsLine)

SpecLine == Init /\ [][NextLine]_vars

\* a caller that only inserts and deletes nodes: no constraint ever exists
NextND ==
  \/ \E x \in Points : AddNode(x, MaxOpsND)
  \/ \E n \in 1..Len(nodes) : DeleteNode(n, MaxOpsND)

SpecND == InitCDT /\ [][NextND]_vars

\* the node pairs a caller may ask to constrain, in the order of the calls
ConstraintRuns ==
  UNION {[1..k -> {<<a, b>> : a, b \in 1..Len(BasePoints)}] : k \in 1..MaxCons}

\* the prebuilt triangulation after a run of add_constraint calls that all
\* returned normally
ConGrids ==
  {add_constraints(BaseGrid(v), cs) : v \in Interpreters,
     cs \in {cs \in ConstraintRuns : \A k \in 1..Len(cs) : cs[k][1] # cs[k][2]}}

InitCon ==
  /\ \E G \in ConGrids :
        /\ G.exc = "none"
        /\ py = G.py
        /\ nodes = G.nodes
        /\ edges = G.edges
        /\ cells = G.cells
  /\ exc = "none"
  /\ op = NoOp
  /\ pre = [nodes |-> nodes, edges |-> edges, cells |-> cells]
  /\ nops = 0
  /\ Standalone

\* a caller that moves nodes of the constrained triangulation
NextCon == \E n \in 1..Len(nodes), x \in MovePoints : ModifyNode(n, x, MaxShifts)

SpecCon == InitCon /\ [][NextCon]_vars

(***************************************************************************)
(* The shadow triangulation (front.py, class ShadowCDT): a Triangulation   *)
(* that subscribes to the mutations of a primary grid g.  S is the state   *)
(* of the pair, [g, cdt, nodemap_g_to_local]; the exception that leaves a  *)
(* callback is S.cdt.exc.  The primary grid keeps nodes and edges in       *)
(* append-only arrays with a deleted flag; it runs the "before" callbacks, *)
(* then mutates, then runs the "after" callbacks, and an exception from a  *)
(* "before" callback leaves it unmutated.                                  *)
(***************************************************************************)
ShadowCDT(g, v) == [g |-> g, cdt |-> EmptyGrid(v), nodemap_g_to_local |-> EmptyDict]

\* d[k]=v and del d[k] of a dict
DictPut(d, k, v) == [n \in DOMAIN d \cup {k} |-> IF n = k THEN v ELSE d[n]]

DictDel(d, k) == [n \in DOMAIN d \ {k} |-> d[n]]

\* reading entry n of the shadow's node array
InNodeArray(cdt, n) == n \in 1..Len(cdt.nodes)

after_add_node(S, n, x) ==
  Bind(add_node(S.cdt, x, 0), LAMBDA c1 :
       IF c1.exc # "none" THEN [S EXCEPT !.cdt = c1]
       ELSE [S EXCEPT !.cdt = c1,
                      !.nodemap_g_to_local = DictPut(@, n, Len(c1.nodes))])

before_modify_node(S, n, x) ==
  IF n \notin DOMAIN S.nodemap_g_to_local THEN [S EXCEPT !.cdt = Raise(@, "KeyError")]
  ELSE [S EXCEPT !.cdt = modify_node(@, S.nodemap_g_to_local[n], x)]

before_delete_node(S, n) ==
  IF n \notin DOMAIN S.nodemap_g_to_local THEN [S EXCEPT !.cdt = Raise(@, "KeyError")]
  ELSE Bind(delete_node(S.cdt, S.nodemap_g_to_local[n]), LAMBDA c1 :
       IF c1.exc # "none" THEN [S EXCEPT !.cdt = c1]
       ELSE [S EXCEPT !.cdt = c1, !.nodemap_g_to_local = DictDel(@, n)])

before_add_edge(S, ns) ==
  IF ~InNodeArray(S.cdt, ns[1]) \/ ~InNodeArray(S.cdt, ns[2])
  THEN [S EXCEPT !.cdt = Raise(@, "IndexError")]
  ELSE [S EXCEPT !.cdt = add_constraint(@, ns[1], ns[2])]

before_modify_edge(S, j, ns) ==
  LET old_nodes == S.g.edges[j].nodes
  IN Bind(remove_constraint(S.cdt, old_nodes[1], old_nodes[2]), LAMBDA c1 :
     IF c1.exc # "none" THEN [S EXCEPT !.cdt = c1]
     ELSE IF ~InNodeArray(c1, ns[1]) \/ ~InNodeArray(c1, ns[2])
          THEN [S EXCEPT !.cdt = Raise(c1, "IndexError")]
          ELSE [S EXCEPT !.cdt = add_constraint(c1, ns[1], ns[2])])

before_delete_edge(S, j) ==
  [S EXCEPT !.cdt = remove_constraint(@, S.g.edges[j].nodes[1], S.g.edges[j].nodes[2])]

\* the mutators of the primary grid, callbacks included
grid_add_node(S, x) ==
  IF S.cdt.exc # "none" THEN S
  ELSE after_add_node([S EXCEPT !.g.nodes = Append(@, [x |-> x, deleted |-> FALSE])],
                      Len(S.g.nodes) + 1, x)

grid_modify_node(S, n, x) ==
  IF S.cdt.exc # "none" THEN S
  ELSE Bind(before_modify_node(S, n, x), LAMBDA S1 :
       IF S1.cdt.exc # "none" THEN S1 ELSE [S1 EXCEPT !.g.nodes[n].x = x])

grid_delete_node(S, n) ==
  IF S.cdt.exc # "none" THEN S
  ELSE Bind(before_delete_node(S, n), LAMBDA S1 :
       IF S1.cdt.exc # "none" THEN S1 ELSE [S1 EXCEPT !.g.nodes[n].deleted = TRUE])

grid_add_edge(S, ns) ==
  IF S.cdt.exc # "none" THEN S
  ELSE Bind(before_add_edge(S, ns), LAMBDA S1 :
       IF S1.cdt.exc # "none" THEN S1
       ELSE [S1 EXCEPT !.g.edges = Append(@, [nodes |-> ns, deleted |-> FALSE])])

grid_modify_edge(S, j, ns) ==
  IF S.cdt.exc # "none" THEN S
  ELSE Bind(before_modify_edge(S, j, ns), LAMBDA S1 :
       IF S1.cdt.exc # "none" THEN S1 ELSE [S1 EXCEPT !.g.edges[j].nodes = ns])

grid_delete_edge(S, j) ==
  IF S.cdt.exc # "none" THEN S
  ELSE Bind(before_delete_edge(S, j), LAMBDA S1 :
       IF S1.cdt.exc # "none" THEN S1 ELSE [S1 EXCEPT !.g.edges[j].deleted = TRUE])

(***************************************************************************)
(* The state machine of the pair: a caller issuing calls on the primary    *)
(* grid, to which a shadow has been attached.                              *)
(***************************************************************************)
LivePrimary == {n \in 1..Len(primary.nodes) : ~primary.nodes[n].deleted}

LivePrimaryEdges == {j \in 1..Len(primary.edges) : ~primary.edges[j].deleted}

PrimaryPairs == {{primary.edges[j].nodes[1], primary.edges[j].nodes[2]} : j \in LivePrimaryEdges}

\* a pair of nodes the caller may join by an edge of the primary grid
Joinable(a, b) ==
  /\ a \in LivePrimary /\ b \in LivePrimary /\ a # b
  /\ {a, b} \notin PrimaryPairs

PairNow == [g |-> primary, cdt |-> Grid, nodemap_g_to_local |-> nodemap_g_to_local]

\* the effect of one call on the primary grid: S is the pair it leaves behind
Mirror(S, o) ==
  /\ nodes' = S.cdt.nodes
  /\ edges' = S.cdt.edges
  /\ cells' = S.cdt.cells
  /\ exc' = S.cdt.exc
  /\ primary' = S.g
  /\ nodemap_g_to_local' = S.nodemap_g_to_local
  /\ op' = o
  /\ pre' = [nodes |-> nodes, edges |-> edges, cells |-> cells, g |-> primary]
  /\ nops' = nops + 1
  /\ py' = py
  /\ front' = front

GridAddNode(x) ==
  /\ Ready(MaxOpsShadow)
  /\ Mirror(grid_add_node(PairNow, x),
            [name |-> "add_node", a |-> Len(primary.nodes) + 1, b |-> 0, x |-> x])

GridModifyNode(n, x) ==
  /\ Ready(MaxOpsShadow)
  /\ n \in LivePrimary
  /\ x # primary.nodes[n].x
  /\ Mirror(grid_modify_node(PairNow, n, x), [name |-> "modify_node", a |-> n, b |-> 0, x |-> x])

GridDeleteNode(n) ==
  /\ Ready(MaxOpsShadow)
  /\ n \in LivePrimary
  /\ \A e \in PrimaryPairs : n \notin e
  /\ Mirror(grid_delete_node(PairNow, n), [name |-> "delete_node", a |-> n, b |-> 0, x |-> <<>>])

GridAddEdge(a, b) ==
  /\ Ready(MaxOpsShadow)
  /\ Joinable(a, b)
  /\ Mirror(grid_add_edge(PairNow, <<a, b>>), [name |-> "add_edge", a |-> a, b |-> b, x |-> <<>>])

GridModifyEdge(j, a, b) ==
  /\ Ready(MaxOpsShadow)
  /\ j \in LivePrimaryEdges
  /\ Joinable(a, b)
  /\ Mirror(grid_modify_edge(PairNow, j, <<a, b>>),
            [name |-> "modify_edge", a |-> a, b |-> b, x |-> <<j>>])

GridDeleteEdge(j) ==
  /\ Ready(MaxOpsShadow)
  /\ j \in LivePrimaryEdges
  /\ Mirror(grid_delete_edge(PairNow, j),
            [name |-> "delete_edge", a |-> primary.edges[j].nodes[1],
             b |-> primary.edges[j].nodes[2], x |-> <<j>>])

\* a primary grid that holds k nodes, none of them at one of Points
Holding(k) ==
  [nodes |-> [i \in 1..k |-> [x |-> <<3, i>>, deleted |-> FALSE]], edges |-> <<>>]

RECURSIVE grid_add_nodes(_, _)
grid_add_nodes(S, pts) ==
  IF pts = <<>> THEN S ELSE grid_add_nodes(grid_add_node(S, pts[1]), Tail(pts))

RECURSIVE grid_add_edges(_, _)
grid_add_edges(S, es) ==
  IF es = <<>> THEN S ELSE grid_add_edges(grid_add_edge(S, es[1]), Tail(es))

\* the edges a caller lays in a primary grid of n nodes, in the order of the calls
EdgeRuns(n) ==
  {<<>>} \cup UNION {[1..k -> {<<a, b>> : a, b \in 1..n}] : k \in 1..MaxMirrored}

\* the pairs a caller can have reached: a shadow attached to a grid that holds
\* at most MaxHeld nodes, then BasePoints added as nodes and at most
\* MaxMirrored edges laid, every call returning normally
MirroredPairs ==
  {grid_add_edges(grid_add_nodes(ShadowCDT(Holding(k), v), BasePoints), es) :
     k \in 0..MaxHeld, v \in Interpreters,
     es \in {es \in EdgeRuns(MaxHeld + Len(BasePoints)) :
               \A i \in 1..Len(es) : es[i][1] < es[i][2]}}

InitShadow ==
  /\ \E S \in MirroredPairs :
        /\ S.cdt.exc = "none"
        /\ py = S.cdt.py
        /\ nodes = S.cdt.nodes
        /\ edges = S.cdt.edges
        /\ cells = S.cdt.cells
        /\ primary = S.g
        /\ nodemap_g_to_local = S.nodemap_g_to_local
  /\ exc = "none"
  /\ op = NoOp
  /\ pre = [nodes |-> nodes, edges |-> edges, cells |-> cells, g |-> primary]
  /\ nops = 0
  /\ front = NoFront

NextShadow ==
  \/ \E x \in Points : GridAddNode(x)
  \/ \E n \in 1..Len(primary.nodes), x \in Points : GridModifyNode(n, x)
  \/ \E n \in 1..Len(primary.nodes) : GridDeleteNode(n)
  \/ \E a, b \in 1..Len(primary.nodes) : GridAddEdge(a, b)
  \/ \E j \in 1..Len(primary.edges), a, b \in 1..Len(primary.nodes) : GridModifyEdge(j, a, b)
  \/ \E j \in 1..Len(primary.edges) : GridDeleteEdge(j)

SpecShadow == InitShadow /\ [][NextShadow]_vars

(***************************************************************************)
(* The driver (front.py, class AdvancingFront) and its strategies.  A site *)
(* is what the strategies read of a TriangleSite a,b,c after its           *)
(* neighbours were resampled: the internal angle theta in whole degrees,   *)
(* scale_factor = edge_length / local_length in tenths, the edge a-c       *)
(* ("None" when there is none, "unmeshed" when it has no real cell,        *)
(* "cells" when it has one) and the 'fixed' flags of a and c.  Metrics are *)
(* kept as integers: every metric times MetricUnit, with pi taken as       *)
(* 355/113, which orders the metrics of these sites as pi does.            *)
(***************************************************************************)
RIGID == 1
SLIDE == 2
FREE == 3

Thetas == {20, 45, 75, 100}

ScaleTenths == {5, 10, 20}

Sites ==
  [theta : Thetas, scale10 : ScaleTenths, j_ac : {"None", "unmeshed", "cells"},
   fixed_a : {RIGID, SLIDE, FREE}, fixed_c : {RIGID, SLIDE, FREE}]

\* 30 * 180 * 113 * 10
MetricUnit == 6102000

\* np.inf: above every metric a site can have
inf == 2000000000

Clip(v, lo, hi) == IF v < lo THEN lo ELSE IF v > hi THEN hi ELSE v

Abs(v) == IF v < 0 THEN -v ELSE v

\* np.clip((90 - theta)/30, 0, 1)
WallMetric(site) == Clip(90 - site.theta, 0, 30) * (MetricUnit \div 30)

\* abs(theta - ideal*pi/180) with ideal = 60 + (1 - scale_factor)*30, theta in radians
CutoffMetric(site) ==
  IF site.theta > 89 THEN inf
  ELSE Abs(10 * site.theta - (600 + (10 - site.scale10) * 30)) * 355 * 30

\* scale_factor * theta, theta in radians
JoinMetric(site) ==
  IF site.theta > 89 THEN inf
  ELSE site.scale10 * site.theta * 355 * 30

\* TriangleSite.actions
actions == <<"Wall", "Cutoff", "Join">>

metric(a, site) ==
  IF a = "Wall" THEN WallMetric(site)
  ELSE IF a = "Cutoff" THEN CutoffMetric(site)
  ELSE JoinMetric(site)

\* np.argmin: the first index of the smallest entry
argmin(ms) == CHOOSE i \in 1..Len(ms) :
                /\ \A k \in 1..Len(ms) : ms[i] <= ms[k]
                /\ \A k \in 1..(i - 1) : ms[k] > ms[i]

\* the exception that leaves execute, "none" when it returns its edits
execute(a, site) ==
  IF a # "Join" THEN "none"
  ELSE IF site.j_ac = "None"
       THEN IF site.fixed_a # FREE /\ site.fixed_c # FREE THEN "StrategyFailed" ELSE "none"
       ELSE IF site.j_ac = "cells" THEN "StrategyFailed"
       ELSE IF site.fixed_a \in {FREE, SLIDE} \/ site.fixed_c \in {FREE, SLIDE} THEN "none"
       ELSE "StrategyFailed"

\* one pass of the body of AdvancingFront.loop at the site that choose_site
\* returned
Loop(site) ==
  /\ exc = "none"
  /\ front.count < MaxSites
  /\ LET metrics == [i \in 1..Len(actions) |-> metric(actions[i], site)]
         best == argmin(metrics)
         raised == execute(actions[best], site)
     IN /\ front' = [count |-> front.count + 1, site |-> site, metrics |-> metrics, best |-> best,
                     ran |-> IF raised = "none" THEN actions[best] ELSE "none"]
        /\ exc' = raised
  /\ op' = [name |-> "loop", a |-> 0, b |-> 0, x |-> <<>>]
  /\ nops' = nops + 1
  /\ UNCHANGED <<nodes, edges, cells, pre, py, primary, nodemap_g_to_local>>

InitFront == Init

NextFront == \E site \in Sites : Loop(site)

SpecFront == InitFront /\ [][NextFront]_vars

(***************************************************************************)
(* Curves (front.py, class Curve).  Lengths, positions and the parameter f *)
(* along a curve are floats in the source; here they are whole ticks, a    *)
(* quotient or a square root being cut to the tick below.  The curves and  *)
(* parameters offered below make the values that decide a comparison       *)
(* whole.                                                                  *)
(***************************************************************************)
\* the square root of n cut to a whole number, searched between lo and hi
RECURSIVE isqrt(_, _, _)
isqrt(n, lo, hi) ==
  IF lo >= hi THEN lo
  ELSE LET mid == (lo + hi + 1) \div 2
       IN IF mid * mid <= n THEN isqrt(n, mid, hi) ELSE isqrt(n, lo, mid - 1)

\* utils.dist of the difference of two points
dist(p, q) ==
  LET d2 == (p[1] - q[1]) * (p[1] - q[1]) + (p[2] - q[2]) * (p[2] - q[2])
  IN isqrt(d2, 0, 46340)

\* utils.dist_along: the length of the polyline up to each of its points
RECURSIVE dist_along(_)
dist_along(pts) ==
  IF Len(pts) = 1 THEN <<0>>
  ELSE LET head == dist_along(SubSeq(pts, 1, Len(pts) - 1))
       IN Append(head, head[Len(head)] + dist(pts[Len(pts) - 1], pts[Len(pts)]))

\* Curve.__init__: a closed curve repeats its first point at the end
Curve(points, closed) ==
  LET pts == IF closed THEN Append(points, points[1]) ELSE points
  IN [points |-> pts, closed |-> closed, distances |-> dist_along(pts)]

total_distance(curve) == curve.distances[Len(curve.distances)]

is_forward(curve, fa, fb, fc) ==
  LET d == total_distance(curve)
  IN ((fb - fa) % d) < ((fc - fa) % d)

is_reverse(curve, fa, fb, fc) == is_forward(curve, fc, fb, fa)

\* A unit square, and the shore of a basin with a narrow spit: from its first
\* point the curve runs 260 ticks east along the spit, folds back to the
\* south-west and goes round the basin.
SquarePoints == << <<0,0>>, <<1,0>>, <<1,1>>, <<0,1>> >>
SpitPoints ==
  << <<0,0>>, <<260,0>>, <<-172,-324>>, <<-184,-340>>, <<-544,-610>>, <<700,-610>>,
     <<700,200>>, <<480,200>> >>
Curves == {Curve(SquarePoints, TRUE), Curve(SpitPoints, TRUE)}
\* Parameters handed to is_forward and is_reverse.
Params == {-1, 0, 1, 2, 3, 5, 4064}

\* a driver that holds a curve; ret is what the last call returned
CurveOnly(curve) == [curve |-> curve, ret |-> "none"]

IsForward(fa, fb, fc) ==
  /\ front' = [front EXCEPT !.ret = is_forward(front.curve, fa, fb, fc)]
  /\ op' = [name |-> "is_forward", a |-> 0, b |-> 0, x |-> <<fa, fb, fc>>]
  /\ UNCHANGED <<nodes, edges, cells, exc, pre, nops, py, primary, nodemap_g_to_local>>

IsReverse(fa, fb, fc) ==
  /\ front' = [front EXCEPT !.ret = is_reverse(front.curve, fa, fb, fc)]
  /\ op' = [name |-> "is_reverse", a |-> 0, b |-> 0, x |-> <<fa, fb, fc>>]
  /\ UNCHANGED <<nodes, edges, cells, exc, pre, nops, py, primary, nodemap_g_to_local>>

InitCurve ==
  /\ py \in Interpreters
  /\ nodes = <<>> /\ edges = <<>> /\ cells = <<>>
  /\ exc = "none"
  /\ op = NoOp
  /\ pre = [nodes |-> <<>>, edges |-> <<>>, cells |-> <<>>]
  /\ nops = 0
  /\ primary = EmptyPrimary
  /\ nodemap_g_to_local = EmptyDict
  /\ \E curve \in Curves : front = CurveOnly(curve)

NextCurve ==
  \/ \E fa, fb, fc \in Params : IsForward(fa, fb, fc)
  \/ \E fa, fb, fc \in Params : IsReverse(fa, fb, fc)

SpecCurve == InitCurve /\ [][NextCurve]_vars

\* Curve.__call__ on a closed curve: the point at parameter f
curve_call(curve, f0) ==
  LET f == f0 % total_distance(curve)
      \* np.searchsorted(distances, f, side='right') - 1
      idx == CHOOSE i \in 1..(Len(curve.distances) - 1) :
               curve.distances[i] <= f /\ f < curve.distances[i + 1]
      len == curve.distances[idx + 1] - curve.distances[idx]
      A == curve.points[idx]
      B == curve.points[idx + 1]
  IN << A[1] + ((f - curve.distances[idx]) * (B[1] - A[1])) \div len,
        A[2] + ((f - curve.distances[idx]) * (B[2] - A[2])) \div len >>

\* the square of utils.dist
dist2(p, q) == (p[1] - q[1]) * (p[1] - q[1]) + (p[2] - q[2]) * (p[2] - q[2])

\* -rtol < (d - target_d)/target_d < rtol with rtol = 0.05, on the squares
WithinTol(d2, target_d) ==
  361 * target_d * target_d < 400 * d2 /\ 400 * d2 < 441 * target_d * target_d

\* offset * 1.5 and 0.5 * (low + high)
Times15(offset) == (3 * offset) \div 2

Halfway(low, high) == (low + high) \div 2

\* the binary search of distance_away
RECURSIVE distance_away_bisect(_, _, _, _, _, _)
distance_away_bisect(curve, anchor_f, target_d, low_offset, high_offset, step) ==
  IF step = 10 THEN [err |-> "CurveException", f |-> 0, x |-> <<>>]
  ELSE LET mid_offset == Halfway(low_offset, high_offset)
           mid_x == curve_call(curve, anchor_f + mid_offset)
           mid_d2 == dist2(curve_call(curve, anchor_f), mid_x)
       IN IF WithinTol(mid_d2, target_d)
          THEN [err |-> "none", f |-> anchor_f + mid_offset, x |-> mid_x]
          ELSE IF mid_d2 < target_d * target_d
               THEN distance_away_bisect(curve, anchor_f, target_d, mid_offset, high_offset, step + 1)
               ELSE distance_away_bisect(curve, anchor_f, target_d, low_offset, mid_offset, step + 1)

\* the first loop of distance_away, which brackets the distance
RECURSIVE distance_away_bracket(_, _, _, _, _, _, _)
distance_away_bracket(curve, anchor_f, target_d, offset, last_offset, last_d2, step) ==
  IF step = 10 THEN distance_away_bisect(curve, anchor_f, target_d, last_offset, offset, 0)
  ELSE LET new_x == curve_call(curve, anchor_f + offset)
           d2 == dist2(curve_call(curve, anchor_f), new_x)
       IN IF WithinTol(d2, target_d)
          THEN [err |-> "none", f |-> anchor_f + offset, x |-> new_x]
          ELSE IF d2 < target_d * target_d
               THEN IF d2 < last_d2
                    THEN [err |-> "CurveException", f |-> 0, x |-> <<>>]
                    ELSE distance_away_bracket(curve, anchor_f, target_d, Times15(offset),
                                               offset, d2, step + 1)
               ELSE distance_away_bisect(curve, anchor_f, target_d, last_offset, offset, 0)

distance_away(curve, anchor_f, signed_distance) ==
  distance_away_bracket(curve, anchor_f, Abs(signed_distance), signed_distance, 0, 0, 0)

\* round(p / q) for p >= 0 and q > 0: Python 3 rounds a half to the even
\* number, Python 2 away from zero
round(p, q, v) ==
  LET lo == p \div q
  IN IF 2 * (p % q) < q THEN lo
     ELSE IF 2 * (p % q) > q THEN lo + 1
     ELSE IF v = 3 /\ lo % 2 = 0 THEN lo ELSE lo + 1

\* Curve.upsample with return_sources: the points laid on the segment from
\* point i on, and their parameters
upsample_segment(curve, scale, v, i) ==
  LET A == curve.points[i]
      B == curve.points[i + 1]
      l == dist(B, A)
      rounded == round(l, scale, v)
      npoints == IF rounded < 1 THEN 1 ELSE rounded
  IN [k \in 1..npoints |->
        [x |-> << A[1] + ((k - 1) * (B[1] - A[1])) \div npoints,
                  A[2] + ((k - 1) * (B[2] - A[2])) \div npoints >>,
         ring_f |-> curve.distances[i] + ((k - 1) * l) \div npoints]]

RECURSIVE upsample(_, _, _, _)
upsample(curve, scale, v, i) ==
  IF i >= Len(curve.points) THEN <<>>
  ELSE upsample_segment(curve, scale, v, i) \o upsample(curve, scale, v, i + 1)

(***************************************************************************)
(* The driver on the boundary ring (front.py, class AdvancingFront).  The  *)
(* driver's grid holds, after initialize_boundaries, the nodes laid along  *)
(* the curve, each joined to the next; ring lists the live ones in the     *)
(* forward order, in which HalfEdge.fwd and rev step along them.  scale    *)
(* is the same everywhere.  touched is a history: the nodes the last call  *)
(* moved or deleted.  The triangulation that shadows the grid is not       *)
(* followed here.                                                          *)
(***************************************************************************)
\* Edge scales asked of the driver.
RingScales == {400}
\* Amounts a node is slid by.
Slides == {-700, -30, 0, 30, 700}
\* Calls of the driver explored on a ring.
MaxRingCalls == 1
\* Most nodes whose 'fixed' flag the caller changes before the calls.
MaxFlagged == 2

max_span_factor == 4

\* initialize_boundaries: the nodes of a closed curve, all SLIDE
initialize_boundaries(curve, scale, v) ==
  LET pts == upsample(curve, scale, v, 1)
  IN [nodes |-> [n \in 1..Len(pts) |-> [x |-> pts[n].x, ring_f |-> pts[n].ring_f,
                                        fixed |-> SLIDE, deleted |-> FALSE]],
      ring |-> Idx(Len(pts)), curve |-> curve, scale |-> scale,
      exc |-> "none", py |-> v, touched |-> {}]

\* the node next to n along the ring: forward for direction 1, backward for -1
around(r, n, direction) ==
  r.ring[((IndexOf(n, r.ring) - 1 + direction) % Len(r.ring)) + 1]

\* len(self.grid.node_to_edges(n)): the two edges of the ring
node_degree(r, n) == IF InSeq(n, r.ring) THEN 2 ELSE 0

\* grid.merge_edges(node=d): the node goes, its two edges become one
merge_edges(r, d) ==
  IF r.exc # "none" THEN r
  ELSE [r EXCEPT !.nodes[d].deleted = TRUE,
                 !.ring = SelectSeq(@, LAMBDA m : m # d),
                 !.touched = @ \cup {d}]

\* grid.modify_node(n, x=..., ring_f=...)
ring_modify_node(r, n, x, f) ==
  IF r.exc # "none" THEN r
  ELSE [r EXCEPT !.nodes[n].x = x, !.nodes[n].ring_f = f, !.touched = @ \cup {n}]

\* pred of free_span
free_pred(r, n) == r.nodes[n].fixed = SLIDE /\ node_degree(r, n) <= 2

RECURSIVE free_span_loop(_, _, _, _, _, _, _)
free_span_loop(r, anchor, last, trav, span, max_span, direction) ==
  IF free_pred(r, trav) /\ trav # anchor /\ span < max_span
  THEN free_span_loop(r, anchor, trav, around(r, trav, direction),
                      span + dist(r.nodes[last].x, r.nodes[trav].x), max_span, direction)
  ELSE span

\* free_span for the half-edge between anchor and n
free_span(r, n, anchor, max_span, direction) ==
  free_span_loop(r, anchor, anchor, n, 0, max_span, direction)

\* the nodes resample finds in the way, from the one past trav on; "around"
\* when the walk comes back to the half-edge it started on
RECURSIVE nodes_in_the_way(_, _, _, _, _, _)
nodes_in_the_way(r, anchor, trav, new_f, direction, found) ==
  LET n_trav == around(r, trav, direction)
      f_trav == r.nodes[n_trav].ring_f
      anchor_f == r.nodes[anchor].ring_f
  IN IF trav = anchor THEN [err |-> "Exception", nodes |-> found]
     ELSE IF direction = 1 /\ is_forward(r.curve, anchor_f, new_f, f_trav)
          THEN [err |-> "none", nodes |-> found]
     ELSE IF direction = -1 /\ is_reverse(r.curve, anchor_f, new_f, f_trav)
          THEN [err |-> "none", nodes |-> found]
     ELSE nodes_in_the_way(r, anchor, n_trav, new_f, direction, Append(found, n_trav))

RECURSIVE merge_all(_, _)
merge_all(r, ds) ==
  IF ds = <<>> THEN r ELSE merge_all(merge_edges(r, ds[1]), SubSeq(ds, 2, Len(ds)))

resample(r, n, anchor, scale, direction) ==
  IF r.exc # "none" THEN r
  ELSE IF ~InSeq(n, r.ring) \/ around(r, anchor, direction) # n THEN Raise(r, "AttributeError")
  ELSE LET span_length == free_span(r, n, anchor, max_span_factor * scale, direction)
           rounded == round(span_length, scale, r.py)
           n_segments == IF rounded < 1 THEN 1 ELSE rounded
           short == span_length < max_span_factor * scale
           target_span == IF short THEN span_length \div n_segments ELSE scale
       IN IF short /\ n_segments = 1 THEN r
          ELSE LET found == distance_away(r.curve, r.nodes[anchor].ring_f, direction * target_span)
               IN IF found.err # "none" THEN Raise(r, found.err)
                  ELSE LET way == nodes_in_the_way(r, anchor, n, found.f, direction, <<>>)
                       IN IF way.err # "none" THEN Raise(r, way.err)
                          ELSE ring_modify_node(merge_all(r, way.nodes), n, found.x, found.f)

\* resample_neighbors for the site a, b, c
resample_neighbors(r, a, b, c) ==
  LET r1 == IF free_pred(r, a) THEN resample(r, a, b, r.scale, -1) ELSE r
  IN IF r1.exc = "none" /\ free_pred(r1, c) THEN resample(r1, c, b, r.scale, 1) ELSE r1

\* the nodes find_slide_conflicts collects from nbr on
RECURSIVE slide_walk(_, _, _, _, _, _)
slide_walk(r, n, nbr0, delta_f, direction, found) ==
  LET nbr == around(r, nbr0, direction)
      n_f == r.nodes[n].ring_f
      nbr_f == r.nodes[nbr].ring_f
      clear == IF direction = 1 THEN is_forward(r.curve, n_f, n_f + delta_f, nbr_f)
               ELSE is_reverse(r.curve, n_f, n_f + delta_f, nbr_f)
  IN IF clear THEN found
     ELSE IF Len(found) > Len(r.ring) THEN <<0>>
     ELSE slide_walk(r, n, nbr, delta_f, direction, Append(found, nbr))

\* find_slide_conflicts: the neighbours of n are looked at in the order given
RECURSIVE find_slide_conflicts(_, _, _, _)
find_slide_conflicts(r, n, delta_f, nbrs) ==
  IF nbrs = <<>> THEN <<>>
  ELSE LET nbr == nbrs[1]
           n_f == r.nodes[n].ring_f
           nbr_f == r.nodes[nbr].ring_f
           direction == IF delta_f > 0 THEN 1 ELSE -1
           clear == IF delta_f > 0 THEN is_forward(r.curve, n_f, n_f + delta_f, nbr_f)
                    ELSE is_reverse(r.curve, n_f, n_f + delta_f, nbr_f)
       IN IF node_degree(r, nbr) # 2 \/ clear
          THEN find_slide_conflicts(r, n, delta_f, SubSeq(nbrs, 2, Len(nbrs)))
          ELSE IF around(r, n, direction) # nbr THEN <<0>>
          ELSE slide_walk(r, n, nbr, delta_f, direction, <<nbr>>)

slide_node(r, n, delta_f) ==
  IF r.exc # "none" THEN r
  ELSE LET conflicts == find_slide_conflicts(r, n, delta_f,
                                             <<around(r, n, -1), around(r, n, 1)>>)
           new_f == r.nodes[n].ring_f + delta_f
       IN IF InSeq(0, conflicts) THEN Raise(r, "Hang")
          ELSE IF \E k \in 1..Len(conflicts) : r.nodes[conflicts[k]].fixed # SLIDE
               THEN Raise(r, "AssertionError")
          ELSE ring_modify_node(merge_all(r, conflicts), n, curve_call(r.curve, new_f), new_f)

\* relax_node for a node that has a cell; delta_f is how far the simplex
\* search moves a SLIDE node along its ring
relax_node(r, n, delta_f) ==
  IF r.exc # "none" THEN r
  ELSE IF r.nodes[n].fixed = FREE THEN [r EXCEPT !.touched = @ \cup {n}]
  ELSE IF r.nodes[n].fixed = SLIDE
       THEN IF delta_f # 0 THEN slide_node(r, n, delta_f) ELSE r
  ELSE r

\* the rings a run starts from: initialize_boundaries, after which the caller
\* sets the 'fixed' flag of some nodes
Rings ==
  UNION {LET r == initialize_boundaries(Curve(SpitPoints, TRUE), scale, v)
         IN {[r EXCEPT !.nodes = [n \in 1..Len(r.nodes) |->
                                   [r.nodes[n] EXCEPT !.fixed = IF n \in flagged THEN flag[n] ELSE @]]] :
               flagged \in {s \in SUBSET (1..Len(r.nodes)) : Cardinality(s) <= MaxFlagged},
               flag \in [1..Len(r.nodes) -> {RIGID, FREE}]} :
           scale \in RingScales, v \in Interpreters}

RingNow == [front EXCEPT !.exc = "none", !.py = py, !.touched = {}]

RingCall(r, o) ==
  /\ front' = r
  /\ exc' = r.exc
  /\ op' = o
  /\ nops' = nops + 1
  /\ UNCHANGED <<nodes, edges, cells, pre, py, primary, nodemap_g_to_local>>

ResampleNeighbors(b) ==
  /\ exc = "none" /\ nops < MaxRingCalls
  /\ InSeq(b, front.ring)
  /\ RingCall(resample_neighbors(RingNow, around(RingNow, b, -1), b, around(RingNow, b, 1)),
              [name |-> "resample_neighbors", a |-> around(RingNow, b, -1), b |-> b,
               x |-> <<around(RingNow, b, 1)>>])

RelaxNode(n, delta_f) ==
  /\ exc = "none" /\ nops < MaxRingCalls
  /\ InSeq(n, front.ring)
  /\ RingCall(relax_node(RingNow, n, delta_f),
              [name |-> "relax_node", a |-> n, b |-> 0, x |-> <<delta_f>>])

InitRing ==
  /\ \E r \in Rings : front = r /\ py = r.py
  /\ nodes = <<>> /\ edges = <<>> /\ cells = <<>>
  /\ exc = "none"
  /\ op = NoOp
  /\ pre = [nodes |-> <<>>, edges |-> <<>>, cells |-> <<>>]
  /\ nops = 0
  /\ primary = EmptyPrimary
  /\ nodemap_g_to_local = EmptyDict

NextRing ==
  \/ \E b \in 1..Len(front.nodes) : ResampleNeighbors(b)
  \/ \E n \in 1..Len(front.nodes) : \E delta_f \in Slides : RelaxNode(n, delta_f)

SpecRing == InitRing /\ [][NextRing]_vars

(***************************************************************************)
(* AdvancingFront.optimize_nodes.  What relax_node returns is the cost     *)
(* that scipy's simplex search ends with, or None; here it is given by     *)
(* the caller, pass by pass and node by node.                              *)
(***************************************************************************)
max_levels == 3

cost_thresh == 2

\* relax_node returned None: the node is neither FREE nor SLIDE, or has no cell
NoCost == -1
\* Costs relax_node returns.
Costs == {NoCost, 1, 3}
\* Most nodes handed to optimize_nodes.
MaxRelaxed == 2
\* Calls of optimize_nodes explored.
MaxOptimize == 1

\* max(max_cost, r): Python 2 orders None below every number, Python 3 raises
pymax(st, r) ==
  IF r = NoCost
  THEN IF st.py = 3 THEN [st EXCEPT !.exc = "TypeError"] ELSE st
  ELSE [st EXCEPT !.max_cost = IF r > @ THEN r ELSE @]

\* for n in nodes: max_cost=max(max_cost,self.relax_node(n))
RECURSIVE relax_each(_, _, _)
relax_each(st, row, k) ==
  IF st.exc # "none" \/ k > Len(row) THEN st
  ELSE relax_each(pymax([st EXCEPT !.calls = @ + 1], row[k]), row, k + 1)

\* for level in range(max_levels); returned[level] holds what relax_node
\* returns in that pass
RECURSIVE optimize_levels(_, _, _)
optimize_levels(st0, returned, level) ==
  IF level > max_levels THEN st0
  ELSE LET st == relax_each([st0 EXCEPT !.passes = level], returned[level], 1)
       IN IF st.exc # "none" THEN st
          ELSE IF st.max_cost <= cost_thresh THEN st
          ELSE optimize_levels(st, returned, level + 1)

optimize_nodes(returned, v) ==
  optimize_levels([max_cost |-> 0, passes |-> 0, calls |-> 0, exc |-> "none", py |-> v], returned, 1)

\* a driver that has not relaxed a node yet
NotRelaxed == [returned |-> <<>>, passes |-> 0, calls |-> 0]

OptimizeNodes(returned) ==
  /\ exc = "none"
  /\ nops < MaxOptimize
  /\ LET st == optimize_nodes(returned, py)
     IN /\ front' = [returned |-> returned, passes |-> st.passes, calls |-> st.calls]
        /\ exc' = st.exc
  /\ op' = [name |-> "optimize_nodes", a |-> Len(returned[1]), b |-> 0, x |-> <<>>]
  /\ nops' = nops + 1
  /\ UNCHANGED <<nodes, edges, cells, pre, py, primary, nodemap_g_to_local>>

InitOptimize ==
  /\ py \in Interpreters
  /\ nodes = <<>> /\ edges = <<>> /\ cells = <<>>
  /\ exc = "none"
  /\ op = NoOp
  /\ pre = [nodes |-> <<>>, edges |-> <<>>, cells |-> <<>>]
  /\ nops = 0
  /\ primary = EmptyPrimary
  /\ nodemap_g_to_local = EmptyDict
  /\ front = NotRelaxed

NextOptimize ==
  \E n \in 1..MaxRelaxed : \E returned \in [1..max_levels -> [1..n -> Costs]] :
    OptimizeNodes(returned)

SpecOptimize == InitOptimize /\ [][NextOptimize]_vars

(***************************************************************************)
(* Vocabulary of the properties.  These are stated on the stored arrays    *)
(* and the exact predicates only, independently of the algorithms above.   *)
(***************************************************************************)
LiveEdges == {j \in 1..Len(edges) : ~edges[j].deleted}

LiveCells == {c \in 1..Len(cells) : ~cells[c].deleted}

PreLive == {n \in 1..Len(pre.nodes) : ~pre.nodes[n].deleted}

PreLiveEdges == {j \in 1..Len(pre.edges) : ~pre.edges[j].deleted}

PreLiveCells == {c \in 1..Len(pre.cells) : ~pre.cells[c].deleted}

PreGrid ==
  [nodes |-> pre.nodes, edges |-> pre.edges, cells |-> pre.cells, exc |-> "none", py |-> py,
   flips |-> <<>>]

\* the last call returned or raised
Returned == op.name # "init" /\ exc # "Hang"

CellCCW(c) ==
  orientation(nodes[cells[c].nodes[1]].x, nodes[cells[c].nodes[2]].x, nodes[cells[c].nodes[3]].x) = 1

\* the slot of edge j holds a live cell
FiniteSlot(j, s) ==
  /\ edges[j].cells[s] \in 1..Len(cells)
  /\ ~cells[edges[j].cells[s]].deleted

\* the node of cell c that is not an end of edge j
Apex(c, j) ==
  CHOOSE n \in {cells[c].nodes[i] : i \in 1..3} : n # edges[j].nodes[1] /\ n # edges[j].nodes[2]

InCircumcircle(c, n) ==
  incircle(nodes[cells[c].nodes[1]].x, nodes[cells[c].nodes[2]].x, nodes[cells[c].nodes[3]].x,
           nodes[n].x) > 0

LocallyDelaunay(j) ==
  LET c1 == edges[j].cells[1]
      c2 == edges[j].cells[2]
  IN ~InCircumcircle(c1, Apex(c2, j)) /\ ~InCircumcircle(c2, Apex(c1, j))

Joined(es, u, v) ==
  \E j \in 1..Len(es) : ~es[j].deleted /\ {es[j].nodes[1], es[j].nodes[2]} = {u, v}

JoinedConstrained(es, u, v) ==
  \E j \in 1..Len(es) :
     ~es[j].deleted /\ es[j].constrained /\ {es[j].nodes[1], es[j].nodes[2]} = {u, v}

\* the affine dimension of the live node positions
AffineDim ==
  IF Live = {} THEN -1
  ELSE IF Cardinality(Live) = 1 THEN 0
  ELSE IF \A a, b, c \in Live : orientation(nodes[a].x, nodes[b].x, nodes[c].x) = 0 THEN 1
  ELSE 2

Dot(a, b, c) == (b[1] - a[1]) * (c[1] - a[1]) + (b[2] - a[2]) * (c[2] - a[2])

Cross(a, b, c, d) == (b[1] - a[1]) * (d[2] - c[2]) - (b[2] - a[2]) * (d[1] - c[1])

\* w lies on the open segment uv
OnOpenSegment(u, v, w) ==
  orientation(u, v, w) = 0 /\ Dot(u, v, w) > 0 /\ Dot(v, u, w) > 0

\* the segments uv and pq cross at a point interior to both
ProperCross(u, v, p, q) ==
  /\ orientation(u, v, p) * orientation(u, v, q) = -1
  /\ orientation(p, q, u) * orientation(p, q, v) = -1

\* The obstructions of the segment from node u to node v in the triangulation
\* before the call, each with its position along the segment as a fraction
\* num/den, den > 0.
Obstructions(u, v) ==
  LET U == pre.nodes[u].x
      V == pre.nodes[v].x
  IN {[kind |-> "node", num |-> Dot(U, V, pre.nodes[w].x), den |-> Dot(U, V, V)] :
        w \in {w \in PreLive \ {u, v} : OnOpenSegment(U, V, pre.nodes[w].x)}}
     \cup
     {[kind |-> "edge",
       num |-> Cross(U, pre.nodes[pre.edges[j].nodes[1]].x,
                     pre.nodes[pre.edges[j].nodes[1]].x, pre.nodes[pre.edges[j].nodes[2]].x)
               * Sign(Cross(U, V, pre.nodes[pre.edges[j].nodes[1]].x, pre.nodes[pre.edges[j].nodes[2]].x)),
       den |-> Cross(U, V, pre.nodes[pre.edges[j].nodes[1]].x, pre.nodes[pre.edges[j].nodes[2]].x)
               * Sign(Cross(U, V, pre.nodes[pre.edges[j].nodes[1]].x, pre.nodes[pre.edges[j].nodes[2]].x))] :
        j \in {j \in PreLiveEdges :
                 /\ pre.edges[j].constrained
                 /\ ProperCross(U, V, pre.nodes[pre.edges[j].nodes[1]].x,
                                pre.nodes[pre.edges[j].nodes[2]].x)}}

\* the kinds of the obstructions met first when walking from u to v
FirstObstructions(u, v) ==
  {o.kind : o \in {o \in Obstructions(u, v) :
                     \A o2 \in Obstructions(u, v) : o.num * o2.den <= o2.num * o.den}}

(***************************************************************************)
(* Properties.                                                             *)
(***************************************************************************)

\* C1: after every public call, each live cell's stored node triple is in
\* strictly counter-clockwise order (orientation +1).
C1_CellsCCW == Returned => \A c \in LiveCells : CellCCW(c)

\* C2: after every public call, every live unconstrained edge with a finite
\* cell on both sides is locally Delaunay: neither opposite apex lies strictly
\* inside the circumcircle of the cell across the edge.
C2_LocallyDelaunay ==
  Returned =>
    \A j \in LiveEdges :
       (~edges[j].constrained /\ FiniteSlot(j, 1) /\ FiniteSlot(j, 2)) => LocallyDelaunay(j)

\* C3: whenever add_constraint(u,v) returns normally, a live edge joins u and
\* v and its constrained flag is set.
C3_ConstraintPresent ==
  (op.name = "add_constraint" /\ exc = "none") => JoinedConstrained(edges, op.a, op.b)

\* add_constraint returned normally for two nodes that no edge joined before
C3_Witness ==
  /\ op.name = "add_constraint"
  /\ exc = "none"
  /\ ~Joined(pre.edges, op.a, op.b)

\* C4: an edge that is live and constrained stays live and constrained across
\* every add_node call, every delete_node call on a node other than its ends,
\* and every add_constraint call.
C4_ConstraintKept ==
  (/\ Returned
   /\ \/ op.name \in {"add_node", "add_constraint"}
      \/ op.name = "delete_node")
  => \A j \in PreLiveEdges :
        (/\ pre.edges[j].constrained
         /\ (op.name = "delete_node" => op.a \notin {pre.edges[j].nodes[1], pre.edges[j].nodes[2]}))
        => JoinedConstrained(edges, pre.edges[j].nodes[1], pre.edges[j].nodes[2])

\* C5: after every public call dim() is the affine dimension of the live
\* node positions: -1 for none, 0 for one, 1 for two or more all collinear,
\* 2 otherwise.
C5_DimIsAffineDim == Returned => dim(Grid) = AffineDim

\* C6: whenever dim() = 2 at the end of a public call, each slot of each
\* live edge holds a live cell or INF_CELL, and at most one of the two holds
\* INF_CELL.
C6_EdgeSlots ==
  (Returned /\ dim(Grid) = 2) =>
    \A j \in LiveEdges :
       /\ \A s \in 1..2 : FiniteSlot(j, s) \/ edges[j].cells[s] = INF_CELL
       /\ FiniteSlot(j, 1) \/ FiniteSlot(j, 2)

\* C7: add_node(x) raises DuplicateNode whenever x is the position of a node
\* that is live when the call is made.
C7_DuplicateRaises ==
  (op.name = "add_node" /\ \E n \in PreLive : pre.nodes[n].x = op.x) => exc = "DuplicateNode"

\* C8: when add_node raises DuplicateNode the live nodes, edges and cells
\* are those of before the call.
C8_DuplicateLeavesIntact ==
  (op.name = "add_node" /\ exc = "DuplicateNode") =>
    /\ {<<n, nodes[n].x>> : n \in Live} = {<<n, pre.nodes[n].x>> : n \in PreLive}
    /\ {<<j, edges[j]>> : j \in LiveEdges} = {<<j, pre.edges[j]>> : j \in PreLiveEdges}
    /\ {<<c, cells[c]>> : c \in LiveCells} = {<<c, pre.cells[c]>> : c \in PreLiveCells}

\* C9: for live nodes u # v that no edge joins, add_constraint(u,v) raises
\* ConstraintCollinearNode when the first obstruction from u towards v is a
\* node on the open segment, raises IntersectingConstraints when it is a
\* constrained edge crossing the segment, and returns normally when the
\* segment meets neither.
C9_ConstraintOutcome ==
  (op.name = "add_constraint" /\ ~Joined(pre.edges, op.a, op.b)) =>
    exc \in (IF Obstructions(op.a, op.b) = {} THEN {"none"}
             ELSE {IF k = "node" THEN "ConstraintCollinearNode" ELSE "IntersectingConstraints" :
                     k \in FirstObstructions(op.a, op.b)})

\* C10: when add_constraint raises ConstraintCollinearNode or
\* IntersectingConstraints the stored nodes, edges and cells are exactly
\* those of before the call.
C10_FailedConstraintIntact ==
  (op.name = "add_constraint" /\ exc \in {"ConstraintCollinearNode", "IntersectingConstraints"})
  => (nodes = pre.nodes /\ edges = pre.edges /\ cells = pre.cells)

\* add_constraint raised after its walk had already crossed an unconstrained
\* edge
C10_Witness ==
  /\ op.name = "add_constraint"
  /\ exc \in {"ConstraintCollinearNode", "IntersectingConstraints"}
  /\ \E k \in 1..Len(find_intersected_elements(PreGrid, op.a, op.b).v) :
        LET e == find_intersected_elements(PreGrid, op.a, op.b).v[k]
        IN e.kind = "edge" /\ ~pre.edges[e.id].constrained

\* C11: when a live edge already joins n_a and n_b, add_constraint(n_a,n_b)
\* returns normally with that edge constrained and changes no node, no cell
\* and no edge other than that flag, whether or not the edge was constrained
\* before the call.
C11_ExistingEdgeMarked ==
  (op.name = "add_constraint" /\ Joined(pre.edges, op.a, op.b)) =>
    /\ exc = "none"
    /\ JoinedConstrained(edges, op.a, op.b)
    /\ nodes = pre.nodes
    /\ cells = pre.cells
    /\ Len(edges) = Len(pre.edges)
    /\ \A j \in 1..Len(pre.edges) :
          IF ~pre.edges[j].deleted /\ {pre.edges[j].nodes[1], pre.edges[j].nodes[2]} = {op.a, op.b}
          THEN edges[j] = [pre.edges[j] EXCEPT !.constrained = TRUE]
          ELSE edges[j] = pre.edges[j]

\* the constrained node pairs of an edge array
ConstrainedPairs(es) ==
  {{es[j].nodes[1], es[j].nodes[2]} : j \in {j \in 1..Len(es) : ~es[j].deleted /\ es[j].constrained}}

\* the constrained node pairs at node n before the call
PreConstrainedAt(n) == {e \in ConstrainedPairs(pre.edges) : n \in e}

\* node n is live where it was before the call
NodeWhereItWas(n) ==
  /\ n \in 1..Len(nodes)
  /\ ~nodes[n].deleted
  /\ nodes[n].x = pre.nodes[n].x

C13_ModifyAtomic ==
  (op.name = "modify_node" /\ exc \notin {"none", "Hang"}) =>
    /\ NodeWhereItWas(op.a)
    /\ ConstrainedPairs(edges) = ConstrainedPairs(pre.edges)

\* C14: when modify_node(n, x=x') returns normally, node n is live at x' and
\* every edge that was constrained before the call, incident to n or not, is
\* live and constrained between the same node ids.
C14_ModifyKeepsConstraints ==
  (op.name = "modify_node" /\ exc = "none") =>
    /\ ~nodes[op.a].deleted
    /\ nodes[op.a].x = op.x
    /\ ConstrainedPairs(pre.edges) \subseteq ConstrainedPairs(edges)

\* check_global_delaunay reports nothing: no live node lies strictly inside
\* the circumcircle of a live cell
GlobalDelaunay == \A c \in LiveCells : \A n \in Live : ~InCircumcircle(c, n)

\* every live edge with a live cell on both sides is locally Delaunay
InteriorLocallyDelaunay ==
  \A j \in LiveEdges : (FiniteSlot(j, 1) /\ FiniteSlot(j, 2)) => LocallyDelaunay(j)

\* C15: from the constraint-free Delaunay triangulation, add_constraint(u,v)
\* followed by remove_constraint(u,v) leaves every interior edge locally
\* Delaunay and check_global_delaunay empty.  (In SpecCDT a remove_constraint
\* that is the second call of a run follows the add_constraint of the same
\* pair on the prebuilt triangulation, which has no constraint of its own.)
C15_AddRemoveDelaunay ==
  (/\ nops = 2
   /\ op.name = "remove_constraint"
   /\ exc = "none"
   /\ ConstrainedPairs(pre.edges) = {{op.a, op.b}})
  => (InteriorLocallyDelaunay /\ GlobalDelaunay)

\* no four live nodes lie on one circle (two nodes at one position lie on
\* every circle through it)
NoFourCocircular ==
  \A a, b, c, d \in Live :
     (Cardinality({a, b, c, d}) = 4 /\ orientation(nodes[a].x, nodes[b].x, nodes[c].x) # 0)
     => incircle(nodes[a].x, nodes[b].x, nodes[c].x, nodes[d].x) # 0

\* the triangles of the Delaunay triangulation of the live nodes: the
\* non-collinear triples whose circumcircle holds no live node strictly inside
DelaunayTriples ==
  {tr \in SUBSET Live :
     /\ Cardinality(tr) = 3
     /\ \E a, b, c \in tr :
           /\ orientation(nodes[a].x, nodes[b].x, nodes[c].x) = 1
           /\ \A n \in Live : incircle(nodes[a].x, nodes[b].x, nodes[c].x, nodes[n].x) <= 0}

\* C16: with no constraints, after any sequence of add_node and delete_node
\* calls no live node is strictly inside the circumcircle of a live cell, and
\* when no four live nodes are cocircular the live cells are exactly the
\* Delaunay triangles of the live points, whatever the order of the calls.
C16_GloballyDelaunay ==
  Returned =>
    /\ GlobalDelaunay
    /\ NoFourCocircular =>
         {{cells[c].nodes[i] : i \in 1..3} : c \in LiveCells} = DelaunayTriples

\* the shadow ids the map gives to the nodes of a set of primary ids
MappedTo(ns) == {nodemap_g_to_local[n] : n \in ns \cap DOMAIN nodemap_g_to_local}

\* C17: between calls on the primary grid, whether they returned or raised,
\* nodemap_g_to_local is a bijection between the live nodes of the primary
\* grid and the live nodes of the shadow triangulation.
C17_MapBijection ==
  exc # "Hang" =>
    /\ DOMAIN nodemap_g_to_local = LivePrimary
    /\ MappedTo(LivePrimary) = Live
    /\ \A a, b \in DOMAIN nodemap_g_to_local :
          a # b => nodemap_g_to_local[a] # nodemap_g_to_local[b]

\* C18: between calls on the primary grid, the constrained edges of the shadow
\* triangulation are exactly the images, under nodemap_g_to_local, of the live
\* edges of the primary grid.
C18_ConstraintsMirrorEdges ==
  exc # "Hang" =>
    /\ \A e \in PrimaryPairs : e \subseteq DOMAIN nodemap_g_to_local
    /\ ConstrainedPairs(edges) = {MappedTo(e) : e \in PrimaryPairs}

\* C19: when a call of add_edge or modify_edge on the primary grid is vetoed by
\* an exception of the shadow's callback, the primary grid is unchanged and
\* the shadow has the constrained edges it had before the call.
C19_VetoLeavesShadow ==
  (op.name \in {"add_edge", "modify_edge"} /\ exc \notin {"none", "Hang"}) =>
    /\ primary = pre.g
    /\ ConstrainedPairs(edges) = ConstrainedPairs(pre.edges)

\* the strategies whose metric is finite and not below that of the best one,
\* the best one left out, in the order the driver would try them
NextBest ==
  {i \in 1..Len(actions) :
     /\ i # front.best
     /\ front.metrics[i] < inf
     /\ \A k \in 1..Len(actions) :
          (k # front.best /\ k # i) => front.metrics[i] <= front.metrics[k]}

\* C20: when execute of the strategy with the smallest metric raises
\* StrategyFailed, the loop does not end with that exception: a strategy with
\* the next-smallest metric is run at the same site.
C20_FallsBackToNextBest ==
  (op.name = "loop" /\ execute(actions[front.best], front.site) = "StrategyFailed"
     /\ NextBest # {}) =>
    /\ exc = "none"
    /\ \E i \in NextBest : front.ran = actions[i]

\* an endpoint the driver may move: its 'fixed' flag is FREE or SLIDE
Movable(flag) == flag \in {FREE, SLIDE}

\* C21: the metric of Join at the site the loop visited is infinite exactly when
\* the internal angle exceeds 89 degrees or neither a nor c is movable, and is
\* scale_factor * theta otherwise; Join is not the chosen strategy at a site
\* where neither endpoint is movable.
C21_JoinMetricGuardsMovability ==
  op.name = "loop" =>
    LET site == front.site
        blocked == site.theta > 89 \/ (~Movable(site.fixed_a) /\ ~Movable(site.fixed_c))
    IN /\ (front.metrics[3] = inf) <=> blocked
       /\ ~blocked => front.metrics[3] = site.scale10 * site.theta * 355 * 30
       /\ (actions[front.best] = "Join") => ~blocked

\* the positions given to add_node so far, in the order of the calls
Inserted == [i \in 1..Len(nodes) |-> nodes[i].x]

\* C23: inserting (0,0), (1,0), (2,0), (1,1) in this order into an empty
\* triangulation, every insertion returns, dim() is 0, 1, 1, 2 after the
\* respective insertions, and the final mesh has exactly one live cell.
C23_DimWalk ==
  \A k \in 1..Len(LineScenario) :
    (nops = k /\ Inserted = SubSeq(LineScenario, 1, k)) =>
      /\ exc = "none"
      /\ dim(Grid) = <<0, 1, 1, 2>>[k]
      /\ k = Len(LineScenario) => Cardinality(LiveCells) = 1

\* C24: the sentinel INF_CELL that the triangulation writes into the cell slots
\* outside the convex hull differs from the container's UNMESHED and UNDEFINED
\* and from -1.
C24_InfCellDistinct ==
  \A j \in LiveEdges : \A s \in 1..2 :
    edges[j].cells[s] = INF_CELL => edges[j].cells[s] \notin {UNMESHED, UNDEFINED, -1}

\* C25: on every two-dimensional triangulation the caller has reached, locate
\* ends for every target, in IN_FACE, IN_EDGE, IN_VERTEX or
\* OUTSIDE_CONVEX_HULL.
C25_LocateTerminates ==
  (exc \in Documented /\ dim(Grid) = 2) =>
    \A t \in ProbePoints :
      /\ locate(Grid, t).err = "none"
      /\ locate(Grid, t).type \in {IN_FACE, IN_EDGE, IN_VERTEX, OUTSIDE_CONVEX_HULL}

\* fill_hole on this boundary ends, and not for want of a third vertex
HoleFilled(g, hole_nodes) == fill_hole(g, hole_nodes).exc \notin {"Hang", "IndexError"}

\* the last call deleted a node of a triangulation that stays two-dimensional
DeletedIn2D ==
  /\ op.name = "delete_node"
  /\ Nnodes_valid(PreGrid) > 2
  /\ dim(PreGrid) = 2
  /\ ~test_delete_node_dim_down(PreGrid, op.a)
  /\ delete_node_2d_hole(PreGrid, op.a).err = "none"
  /\ delete_node_2d_hole(PreGrid, op.a).grid.exc = "none"

\* the last call constrained two nodes that shared no edge
ConstrainedAcross ==
  /\ op.name = "add_constraint"
  /\ nodes_to_edge(PreGrid, op.a, op.b) = 0
  /\ add_constraint_holes(PreGrid, op.a, op.b).err = "none"
  /\ add_constraint_holes(PreGrid, op.a, op.b).grid.exc = "none"

\* C26: fill_hole ends on every boundary delete_node_2d passes it (a cyclic
\* list with 'inf' entries) and on both chains add_constraint passes it: the
\* rotation past 'inf' stops, every loop is replaced by shorter loops, and a
\* third vertex is found for every edge a-b.
C26_FillHoleTerminates ==
  /\ DeletedIn2D =>
       HoleFilled(delete_node_2d_hole(PreGrid, op.a).grid,
                  delete_node_2d_hole(PreGrid, op.a).hole_nodes)
  /\ ConstrainedAcross =>
       LET h == add_constraint_holes(PreGrid, op.a, op.b)
       IN /\ HoleFilled(h.grid, h.left_nodes)
          /\ HoleFilled(fill_hole(h.grid, h.left_nodes), h.right_nodes)


\* the last call once more, from the state it started in, with its history
Replayed ==
  CASE op.name = "add_node" -> add_node(PreGrid, op.x, 0)
    [] op.name = "delete_node" -> delete_node(PreGrid, op.a)
    [] op.name = "modify_node" -> modify_node(PreGrid, op.a, op.x)
    [] op.name = "add_constraint" -> add_constraint(PreGrid, op.a, op.b)
    [] op.name = "remove_constraint" -> remove_constraint(PreGrid, op.a, op.b)
    [] OTHER -> PreGrid

\* at the call f, edge f.j is not constrained and has a live cell on both sides
Flippable(f) ==
  /\ ~f.edges[f.j].constrained
  /\ ~f.edges[f.j].deleted
  /\ \A s \in 1..2 :
       /\ f.edges[f.j].cells[s] \in 1..Len(f.cells)
       /\ ~f.cells[f.edges[f.j].cells[s]].deleted

\* at the call f, a cell beside edge f.j has a constrained edge
BesideConstraint(f) ==
  \E s \in 1..2 : \E i \in 1..3 :
    /\ f.edges[f.j].cells[s] \in 1..Len(f.cells)
    /\ f.edges[f.cells[f.edges[f.j].cells[s]].edges[i]].constrained

\* C27: every edge flip_edge is called on, by restore_delaunay and
\* propagating_flip from add_node, modify_node and remove_constraint, is an
\* unconstrained edge between two live finite cells.
C27_FlipsOnlyInteriorFree ==
  LET flips == Replayed.flips
  IN \A k \in 1..Len(flips) : Flippable(flips[k])

\* a call returned after it flipped an edge of a cell that has a constrained
\* edge
C27_Witness ==
  /\ exc = "none"
  /\ LET flips == Replayed.flips
     IN Len(flips) >= 1 /\ \E k \in 1..Len(flips) : BesideConstraint(flips[k])

\* C28: is_forward(f_a, f_b, f_c) is true exactly when (f_b - f_a) mod d is
\* below (f_c - f_a) mod d, and is_reverse(f_a, f_b, f_c) exactly when
\* (f_a - f_b) mod d is below (f_a - f_c) mod d, for every f_a, f_b, f_c, d
\* being the total length of the curve.
C28_ReverseMirrorsForward ==
  LET d == total_distance(front.curve)
      fa == op.x[1]
      fb == op.x[2]
      fc == op.x[3]
  IN /\ op.name = "is_forward" => (front.ret <=> ((fb - fa) % d) < ((fc - fa) % d))
     /\ op.name = "is_reverse" => (front.ret <=> ((fa - fb) % d) < ((fa - fc) % d))

\* every call of relax_node in the passes that were run returned a cost
AllCosts ==
  \A l \in 1..Len(front.returned) : \A k \in 1..Len(front.returned[l]) :
    front.returned[l][k] # NoCost

\* no cost returned in pass l is above cost_thresh
CalmPass(l) == \A k \in 1..Len(front.returned[l]) : front.returned[l][k] <= cost_thresh

\* C29: optimize_nodes runs at most max_levels = 3 passes of relax_node over
\* the nodes and stops after the first pass in which no cost returned is above
\* cost_thresh = 2, whatever the costs of the passes before it.
C29_StopsAfterCalmPass ==
  (op.name = "optimize_nodes" /\ AllCosts) =>
    /\ exc = "none"
    /\ front.passes <= max_levels
    /\ \A l \in 1..max_levels :
         (CalmPass(l) /\ \A m \in 1..(l - 1) : ~CalmPass(m)) => front.passes = l

\* C30: the nodes a call of the driver moved or deleted are FREE or SLIDE:
\* none of them is RIGID.
C30_RigidUntouched ==
  op.name \in {"resample_neighbors", "relax_node"} =>
    \A n \in front.touched : front.nodes[n].fixed \in {FREE, SLIDE}
====
